---- MODULE Spec2Model ----
\* Model of the play view of the "Waterfalls" word puzzle:
\*   src/src/lib/state.svelte.ts          (game store, loadPuzzle, submitAnswers, isSolved)
\*   src/src/components/MainView.svelte   (setEntry, handleSubmit, goNext, revealLetter,
\*                                         saveState, loadSavedState, resetPuzzle, timer)
\* Strings are sequences of one-character strings, cell indices are 0-based
\* naturals, a JavaScript object is a function whose DOMAIN is the set of keys
\* that hold a defined value (a key assigned `undefined` is read everywhere in
\* the code through `?? ''` and dropped by JSON.stringify, so it is modelled
\* as an absent key).
EXTENDS Integers, Sequences, FiniteSets, TLC

\* ---------------------------------------------------------------- bounds
\* cap on the number of submits of one page session (game.state.attempts)
MaxSubmits == 2
\* cap on the timer, in seconds since it was started
MaxTime == 1

\* ---------------------------------------------------------------- values
\* JavaScript null for a number-valued field (focusedCell, completionTime)
null == -1

\* the empty object {}
EmptyMap == <<>>

\* obj[k] ?? ''
Get(obj, k) == IF k \in DOMAIN obj THEN obj[k] ELSE <<>>

\* obj[k] = v
Put(obj, k, v) == [x \in (DOMAIN obj) \cup {k} |-> IF x = k THEN v ELSE obj[x]]

\* obj[k] = undefined
Del(obj, k) == [x \in (DOMAIN obj) \ {k} |-> obj[x]]

\* String.prototype.toLowerCase, character by character
LowerChar(c) ==
  CASE c = "A" -> "a"
    [] c = "B" -> "b"
    [] OTHER -> c

toLowerCase(w) == [k \in 1..Len(w) |-> LowerChar(w[k])]

\* String.prototype.slice(from) and slice(0, to) for 0 <= from, to
sliceFrom(w, from) == IF from >= Len(w) THEN <<>> ELSE SubSeq(w, from + 1, Len(w))

sliceTo(w, to) == IF to >= Len(w) THEN w ELSE SubSeq(w, 1, to)

Min(a, b) == IF a <= b THEN a ELSE b

\* ---------------------------------------------------------------- puzzles
\* A cell without a fixed word has fixed = <<>> (falsy, like undefined).
NoPuzzle == [id |-> "", rows |-> 0, cols |-> 0, cells |-> <<>>, arrows |-> {}, solutions |-> <<>>]

\* 2x2 grid shaped like makeDemoPuzzle: two clue words, two solution cells.
PuzzleA ==
  [id |-> "A", rows |-> 2, cols |-> 2,
   cells |-> [i \in 0..3 |-> [fixed |-> IF i \in {0, 3} THEN <<"b", "b">> ELSE <<>>]],
   arrows |-> {[from |-> 0, to |-> 1, dir |-> "right"],
               [from |-> 0, to |-> 2, dir |-> "down"],
               [from |-> 2, to |-> 3, dir |-> "right"]},
   solutions |-> [i \in {1, 2} |-> IF i = 1 THEN <<"a", "b">> ELSE <<"b", "a", "b">>]]

\* 2x2 grid with an unused first cell, a cell that is only an arrow endpoint,
\* and a solution stored with an upper-case letter.
PuzzleB ==
  [id |-> "B", rows |-> 2, cols |-> 2,
   cells |-> [i \in 0..3 |-> [fixed |-> IF i = 1 THEN <<"b", "b">> ELSE <<>>]],
   arrows |-> {[from |-> 1, to |-> 3, dir |-> "down"],
               [from |-> 2, to |-> 3, dir |-> "right"]},
   solutions |-> [i \in {3} |-> <<"A", "b">>]]

\* 1x1 grid whose only cell is fixed: loadPuzzle focuses cell 0, a fixed cell
PuzzleC ==
  [id |-> "C", rows |-> 1, cols |-> 1,
   cells |-> [i \in 0..0 |-> [fixed |-> <<"a">>]],
   arrows |-> {},
   solutions |-> EmptyMap]

Puzzles == {PuzzleA, PuzzleB, PuzzleC}

PuzzleIds == {p.id : p \in Puzzles}

\* the raw values a player can put into an input element
TypedValues ==
  { <<>>, <<"a", "b">>, <<"A", "b">>, <<"b", "a", "b">>, <<"a", "b", "b">> }

\* ---------------------------------------------------------------- state
VARIABLES
  puzzle,          \* game.puzzle (NoPuzzle for null)
  entries,         \* game.state.entries
  reveals,         \* game.state.reveals
  focusedCell,     \* game.state.focusedCell
  lockedCells,     \* game.state.lockedCells
  incorrectCells,  \* game.state.incorrectCells
  attempts,        \* game.state.attempts
  selectedId,      \* game.selectedId
  startTime,       \* MainView startTime (TRUE when set, FALSE for null)
  currentTime,     \* MainView currentTime: whole seconds since startTime
  timerInterval,   \* MainView timerInterval (TRUE when an interval is installed)
  isCompleted,     \* MainView isCompleted
  completionTime,  \* MainView completionTime
  submitCount,     \* MainView submitCount
  tileCompletions, \* MainView tileCompletions
  storage,         \* localStorage, by puzzle id
  served,          \* id of the puzzle the puzzle index resolves to on mount
  mode,            \* App mode: "play" (MainView mounted) or "archive" (ArchiveView)
  fetches,         \* the fetchPuzzleById calls made by handlePuzzleSelect, in call order
  index,           \* game.index
  mounting,        \* MainView's onMount is waiting for fetchPuzzleIndex
  rows,            \* editor rows
  cols,            \* editor cols
  cells,           \* editor cells (0-based array of EditCell)
  editCount,       \* history: the number of editor operations so far
  lastOp           \* history: the handler that ran last, its cell and its outcome

gameState == <<entries, reveals, focusedCell, lockedCells, incorrectCells, attempts>>

timerVars == <<startTime, currentTime, timerInterval, isCompleted, completionTime>>

vars == <<puzzle, entries, reveals, focusedCell, lockedCells, incorrectCells, attempts,
          selectedId, startTime, currentTime, timerInterval, isCompleted,
          completionTime, submitCount, tileCompletions, storage, served,
          mode, fetches, index, mounting, rows, cols, cells, editCount, lastOp>>

\* the App shell and the puzzle list
appVars == <<mode, fetches, index, mounting>>

\* the editor's local state
editorVars == <<rows, cols, cells, editCount>>

NoRecord == [puzzleId |-> ""]

\* a localStorage item that JSON.parse rejects
CorruptRecord == [puzzleId |-> "", corrupt |-> TRUE]

\* the editor's empty cell { isFixed: false, right: false, down: false }; the
\* optional word `fixed` is <<>> when it is undefined
EmptyCell == [fixed |-> <<>>, isFixed |-> FALSE, right |-> FALSE, down |-> FALSE]

Op(name, cell, ret) == [op |-> name, cell |-> cell, ret |-> ret]

\* ---------------------------------------------------------------- queries
CellIndices(p) == DOMAIN p.cells

isFixed(p, i) == p.cells[i].fixed # <<>>

hasSolution(p, i) == i \in DOMAIN p.solutions /\ p.solutions[i] # <<>>

isCellUsedIn(p, i) ==
  /\ i \in CellIndices(p)
  /\ \/ isFixed(p, i)
     \/ hasSolution(p, i)
     \/ \E a \in p.arrows : a.from = i
     \/ \E a \in p.arrows : a.to = i

isCellUsed(i) == puzzle # NoPuzzle /\ isCellUsedIn(puzzle, i)

isCellLocked(i) == i \in lockedCells

isCellIncorrect(i) == i \in incorrectCells

getDisplayValue(i) == Get(reveals, i) \o Get(entries, i)

\* the cells that are rendered as an input element
InputCells == {i \in CellIndices(puzzle) : isCellUsed(i) /\ ~isFixed(puzzle, i)}

firstEmptyCell(p) ==
  IF \E i \in CellIndices(p) : ~isFixed(p, i)
  THEN CHOOSE i \in CellIndices(p) :
         ~isFixed(p, i) /\ \A j \in CellIndices(p) : j < i => isFixed(p, j)
  ELSE null

isSolvedWith(p, locked) ==
  IF p = NoPuzzle THEN FALSE ELSE \A i \in DOMAIN p.solutions : i \in locked

isSolved == isSolvedWith(puzzle, lockedCells)

\* ---------------------------------------------------------------- persistence
\* the object saveState() serialises; JSON.stringify/JSON.parse keep numbers,
\* strings, booleans and null, and turn a Set into the array of its members,
\* which loadSavedState turns back into a Set
SavedRecord(p, e, r, f, locked, incorrect, ct, sc, tc) ==
  [puzzleId |-> p.id, entries |-> e, reveals |-> r, focusedCell |-> f,
   lockedCells |-> locked, incorrectCells |-> incorrect,
   solved |-> isSolvedWith(p, locked), completionTime |-> ct,
   submitCount |-> sc, tileCompletions |-> tc]

\* saveState(): localStorage after the call, given the values being saved
saveState(p, e, r, f, locked, incorrect, ct, sc, tc) ==
  IF p = NoPuzzle THEN storage
  ELSE [storage EXCEPT ![p.id] = SavedRecord(p, e, r, f, locked, incorrect, ct, sc, tc)]

\* loadSavedState(): is there a record for puzzle p that passes the puzzleId guard
hasSavedState(p) ==
  /\ p # NoPuzzle
  /\ storage[p.id] # NoRecord
  /\ storage[p.id] # CorruptRecord
  /\ storage[p.id].puzzleId = p.id

\* x || null for a number: 0 and null both give null
orNull(x) == IF x = 0 THEN null ELSE x

\* ---------------------------------------------------------------- timer
\* The clock is read in whole seconds, floor((Date.now() - startTime) / 1000),
\* by the interval callback and by stopTimer; the model advances it one second
\* per interval callback, so while the interval runs currentTime is also the
\* value stopTimer computes; once the interval is cleared the clock may have
\* moved on by any amount.
\* the values completionTime can have after stopTimer()
stopTimerCompletion(st, running, now, ct) ==
  IF ~st THEN {ct}
  ELSE IF running THEN {now}
  ELSE now..MaxTime

\* ---------------------------------------------------------------- construction
Init ==
  /\ puzzle = NoPuzzle
  /\ entries = EmptyMap
  /\ reveals = EmptyMap
  /\ focusedCell = null
  /\ lockedCells = {}
  /\ incorrectCells = {}
  /\ attempts = 0
  /\ selectedId = ""
  /\ startTime = FALSE
  /\ currentTime = 0
  /\ timerInterval = FALSE
  /\ isCompleted = FALSE
  /\ completionTime = null
  /\ submitCount = 0
  /\ tileCompletions = EmptyMap
  /\ storage = [id \in PuzzleIds |-> NoRecord]
  /\ served \in PuzzleIds
  /\ mode = "play"
  /\ fetches = <<>>
  /\ index = <<>>
  /\ mounting = FALSE
  /\ rows = 3
  /\ cols = 3
  /\ cells = [i \in 0..8 |-> EmptyCell]
  /\ editCount = 0
  /\ lastOp = Op("init", null, FALSE)

\* ---------------------------------------------------------------- loading
\* focusedCell that loadPuzzle gives: firstEmptyCell(puzzle.grid) ?? 0
loadPuzzleFocus(p) == IF firstEmptyCell(p) = null THEN 0 ELSE firstEmptyCell(p)

\* onMount with no puzzle loaded: fetchPuzzleIndex, fetchPuzzleById of the
\* served puzzle (loadPuzzle, selectedId), loadSavedState, startTimer unless
\* the restored session is solved.
Mount ==
  /\ puzzle = NoPuzzle
  /\ \E p \in Puzzles :
       /\ p.id = served
       /\ puzzle' = p
       /\ selectedId' = p.id
       /\ attempts' = 0
       /\ IF hasSavedState(p)
          THEN LET rec == storage[p.id] IN
               /\ entries' = rec.entries
               /\ reveals' = rec.reveals
               /\ focusedCell' = orNull(rec.focusedCell)
               /\ lockedCells' = rec.lockedCells
               /\ incorrectCells' = rec.incorrectCells
               /\ isCompleted' = IF rec.solved /\ orNull(rec.completionTime) # null
                                 THEN TRUE ELSE isCompleted
               /\ completionTime' = IF rec.solved /\ orNull(rec.completionTime) # null
                                    THEN rec.completionTime ELSE completionTime
               /\ submitCount' = rec.submitCount
               /\ tileCompletions' = rec.tileCompletions
          ELSE /\ entries' = EmptyMap
               /\ reveals' = EmptyMap
               /\ focusedCell' = loadPuzzleFocus(p)
               /\ lockedCells' = {}
               /\ incorrectCells' = {}
               /\ UNCHANGED <<isCompleted, completionTime, submitCount, tileCompletions>>
       /\ LET solvedNow == isSolvedWith(p, lockedCells') IN
          /\ startTime' = (startTime \/ ~solvedNow)
          /\ timerInterval' = (timerInterval \/ ~solvedNow)
  /\ lastOp' = Op("mount", null, FALSE)
  /\ UNCHANGED <<currentTime, storage, served, appVars, editorVars>>

\* The page is reloaded: every in-memory variable returns to its constructed
\* value, localStorage survives.
Reload ==
  /\ puzzle # NoPuzzle
  /\ puzzle' = NoPuzzle
  /\ entries' = EmptyMap
  /\ reveals' = EmptyMap
  /\ focusedCell' = null
  /\ lockedCells' = {}
  /\ incorrectCells' = {}
  /\ attempts' = 0
  /\ selectedId' = ""
  /\ startTime' = FALSE
  /\ currentTime' = 0
  /\ timerInterval' = FALSE
  /\ isCompleted' = FALSE
  /\ completionTime' = null
  /\ submitCount' = 0
  /\ tileCompletions' = EmptyMap
  /\ mode' = "play"
  /\ fetches' = <<>>
  /\ index' = <<>>
  /\ mounting' = FALSE
  /\ rows' = 3
  /\ cols' = 3
  /\ cells' = [i \in 0..8 |-> EmptyCell]
  /\ editCount' = 0
  /\ lastOp' = Op("init", null, FALSE)
  /\ UNCHANGED <<storage, served>>

\* ---------------------------------------------------------------- timer steps
\* the setInterval callback of startTimer, one second after the previous one
Tick ==
  /\ timerInterval
  /\ startTime
  /\ currentTime < MaxTime
  /\ currentTime' = currentTime + 1
  /\ UNCHANGED <<puzzle, gameState, selectedId, startTime, timerInterval, isCompleted,
                 completionTime, submitCount, tileCompletions, storage, served, appVars, editorVars, lastOp>>

\* ---------------------------------------------------------------- setEntry
\* (variant: the typed value keeps its letter case)
setEntryInputKeepCase(value, revealed) == sliceFrom(value, Len(revealed))

\* userInput of setEntry: the lower-cased value without the revealed prefix
setEntryInput(value, revealed) == sliceFrom(toLowerCase(value), Len(revealed))

\* (variant: the locked-cell guard of setEntry is missing)
setEntryRejectedNoLock(i, value) ==
  Len(toLowerCase(value)) < Len(Get(reveals, i))

\* (variant: the length guard of setEntry is missing)
setEntryRejectedNoLength(i, value) == isCellLocked(i)

\* setEntry returns early: the cell is locked, or the value is shorter than
\* the revealed prefix
setEntryRejected(i, value) ==
  \/ isCellLocked(i)
  \/ Len(toLowerCase(value)) < Len(Get(reveals, i))

\* oninput of the input element of cell i
SetEntry(i, value) ==
  /\ puzzle # NoPuzzle
  /\ i \in InputCells
  /\ lastOp' = Op("setEntry", i, FALSE)
  /\ IF setEntryRejected(i, value)
     THEN UNCHANGED <<entries, incorrectCells, storage>>
     ELSE /\ entries' = Put(entries, i, setEntryInput(value, Get(reveals, i)))
          /\ incorrectCells' = incorrectCells \ {i}
          /\ storage' = saveState(puzzle, entries', reveals, focusedCell, lockedCells,
                                  incorrectCells', completionTime, submitCount,
                                  tileCompletions)
  /\ UNCHANGED <<puzzle, reveals, focusedCell, lockedCells, attempts, selectedId,
                 timerVars, submitCount, tileCompletions, served, appVars, editorVars>>

\* ---------------------------------------------------------------- focus and navigation
\* onfocus of the input element of cell i (a locked cell's input is disabled)
FocusCell(i) ==
  /\ puzzle # NoPuzzle
  /\ i \in InputCells
  /\ ~isCellLocked(i)
  /\ focusedCell' = i
  /\ lastOp' = Op("navigate", null, FALSE)
  /\ UNCHANGED <<puzzle, entries, reveals, lockedCells, incorrectCells, attempts,
                 selectedId, timerVars, submitCount, tileCompletions, storage, served, appVars, editorVars>>

\* focusedCell ?? 0
focusStart == IF focusedCell = null THEN 0 ELSE focusedCell

NumCells == Cardinality(CellIndices(puzzle))

\* the cell reached from start after k steps of direction dir (+1 or -1)
stepFrom(start, k, dir) == (start + dir * k + NumCells * NumCells) % NumCells

\* (variant: the search stops at the end of the grid instead of wrapping)
navTargetNoWrap(dir) ==
  LET hits == {k \in 1..NumCells :
                 /\ focusStart + dir * k \in CellIndices(puzzle)
                 /\ focusStart + dir * k \in InputCells} IN
  IF hits = {} THEN null
  ELSE focusStart + dir * (CHOOSE k \in hits : \A k2 \in hits : k <= k2)

\* the cell goNext (dir = 1) or goPrev (dir = -1) focuses, null if the loop ends
\* without finding a used, non-fixed cell
navTarget(dir) ==
  LET hits == {k \in 1..NumCells : stepFrom(focusStart, k, dir) \in InputCells} IN
  IF hits = {} THEN null
  ELSE stepFrom(focusStart, CHOOSE k \in hits : \A k2 \in hits : k <= k2, dir)

Navigate(dir) ==
  /\ puzzle # NoPuzzle
  /\ focusedCell' = IF navTarget(dir) = null THEN focusedCell ELSE navTarget(dir)
  /\ lastOp' = Op("navigate", null, FALSE)
  /\ UNCHANGED <<puzzle, entries, reveals, lockedCells, incorrectCells, attempts,
                 selectedId, timerVars, submitCount, tileCompletions, storage, served, appVars, editorVars>>

GoPrev == Navigate(-1)

GoNext == Navigate(1)

\* ---------------------------------------------------------------- revealLetter
\* (variant: the revealed prefix keeps the solution's letter case)
nextRevealedKeepCase(solution, currentRevealed) ==
  sliceTo(solution, Min(Len(currentRevealed) + 1, Len(solution)))

\* (variant: the revealed prefix is not extended)
nextRevealedStuck(solution, currentRevealed) ==
  toLowerCase(sliceTo(solution, Len(currentRevealed)))

\* nextRevealed: the solution's prefix one letter longer than the current reveal
nextRevealed(solution, currentRevealed) ==
  toLowerCase(sliceTo(solution, Min(Len(currentRevealed) + 1, Len(solution))))

\* revealLetter returns early: nothing focused, a fixed cell, or no solution
revealSkipped ==
  \/ focusedCell = null
  \/ isFixed(puzzle, focusedCell)
  \/ ~hasSolution(puzzle, focusedCell)

\* the focused cell's reveal already has the length of its solution
fullyRevealed ==
  /\ ~revealSkipped
  /\ Len(Get(reveals, focusedCell)) = Len(puzzle.solutions[focusedCell])

\* (variant: the entry and the incorrect mark are cleared before the guards)
RevealLetterClearsFirst ==
  /\ puzzle # NoPuzzle
  /\ lastOp' = Op("revealLetter", focusedCell, fullyRevealed)
  /\ entries' = Del(entries, focusedCell)
  /\ incorrectCells' = incorrectCells \ {focusedCell}
  /\ IF revealSkipped
     THEN UNCHANGED <<reveals, storage>>
     ELSE LET i == focusedCell IN
          /\ reveals' = Put(reveals, i, nextRevealed(puzzle.solutions[i], Get(reveals, i)))
          /\ storage' = saveState(puzzle, entries', reveals', focusedCell, lockedCells,
                                  incorrectCells', completionTime, submitCount,
                                  tileCompletions)
  /\ UNCHANGED <<puzzle, focusedCell, lockedCells, attempts, selectedId, timerVars,
                 submitCount, tileCompletions, served, appVars, editorVars>>

\* (lastOp.ret records whether the call found its cell fully revealed)
RevealLetter ==
  /\ puzzle # NoPuzzle
  /\ lastOp' = Op("revealLetter", focusedCell, fullyRevealed)
  /\ IF revealSkipped
     THEN UNCHANGED <<entries, reveals, incorrectCells, storage>>
     ELSE LET i == focusedCell IN
          /\ entries' = Del(entries, i)
          /\ reveals' = Put(reveals, i, nextRevealed(puzzle.solutions[i], Get(reveals, i)))
          /\ incorrectCells' = incorrectCells \ {i}
          /\ storage' = saveState(puzzle, entries', reveals', focusedCell, lockedCells,
                                  incorrectCells', completionTime, submitCount,
                                  tileCompletions)
  /\ UNCHANGED <<puzzle, focusedCell, lockedCells, attempts, selectedId, timerVars,
                 submitCount, tileCompletions, served, appVars, editorVars>>

\* ---------------------------------------------------------------- submit
\* (variant: the comparison leaves out the revealed prefix)
isCorrectEntryNoReveal(p, i) == Get(entries, i) = p.solutions[i]

\* submitAnswers, first branch: fullEntry === correctWord
isCorrectEntry(p, i) == getDisplayValue(i) = p.solutions[i]

\* the solution cells submitAnswers locks
submitCorrect(p) == {i \in DOMAIN p.solutions : isCorrectEntry(p, i)}

\* (variant: a wrong cell is marked even when nothing was typed)
submitWrongAlsoEmpty(p) ==
  {i \in DOMAIN p.solutions : Get(reveals, i) \o Get(entries, i) # p.solutions[i]}

\* the solution cells submitAnswers marks incorrect and clears
submitWrong(p) ==
  {i \in DOMAIN p.solutions : ~isCorrectEntry(p, i) /\ Get(entries, i) # <<>>}

\* (variant: the rebuilt Set holds only the cells found correct in this call)
submitLockedOnlyNew(p) ==
  {i \in DOMAIN p.solutions : Get(reveals, i) \o Get(entries, i) = p.solutions[i]}

\* lockedCells after submitAnswers
submitLocked(p) == lockedCells \cup submitCorrect(p)

\* (variant: a cell found correct keeps its incorrect mark)
submitIncorrectKeepsLocked(p) == incorrectCells \cup submitWrong(p)

\* incorrectCells after submitAnswers
submitIncorrect(p) == (incorrectCells \ submitCorrect(p)) \cup submitWrong(p)

\* (variant: the entry of a wrong cell is kept)
submitEntriesKeepWrong(p) == entries

\* entries after submitAnswers
submitEntries(p) == [i \in (DOMAIN entries) \ submitWrong(p) |-> entries[i]]

\* the return value of submitAnswers
allCorrect(p) == submitWrong(p) = {}

\* (variant: locked cells are not skipped)
firstUnsolvedCellAnyLock(p, locked) ==
  LET open == {i \in CellIndices(p) :
                 /\ ~isFixed(p, i)
                 /\ isCellUsedIn(p, i)
                 /\ hasSolution(p, i)} IN
  IF open = {} THEN null ELSE CHOOSE i \in open : \A j \in open : i <= j

\* the cell focusFirstUnsolvedCell focuses, given the locked cells
firstUnsolvedCell(p, locked) ==
  LET open == {i \in CellIndices(p) :
                 /\ ~isFixed(p, i)
                 /\ isCellUsedIn(p, i)
                 /\ i \notin locked
                 /\ hasSolution(p, i)} IN
  IF open = {} THEN null ELSE CHOOSE i \in open : \A j \in open : i <= j

\* tileCompletions after handleSubmit: a record for every newly locked cell
\* that has none yet
recordCompletions(newlyLocked, time, submits) ==
  [i \in (DOMAIN tileCompletions) \cup newlyLocked |->
     IF i \in DOMAIN tileCompletions THEN tileCompletions[i]
     ELSE [time |-> time, submits |-> submits]]

HandleSubmit ==
  /\ puzzle # NoPuzzle
  /\ attempts < MaxSubmits
  /\ submitCount < MaxSubmits
  /\ submitCount' = submitCount + 1
  /\ attempts' = attempts + 1
  /\ lockedCells' = submitLocked(puzzle)
  /\ incorrectCells' = submitIncorrect(puzzle)
  /\ entries' = submitEntries(puzzle)
  /\ tileCompletions' = recordCompletions(lockedCells' \ lockedCells, currentTime, submitCount')
  /\ IF isSolvedWith(puzzle, lockedCells')
     THEN /\ timerInterval' = FALSE
          /\ completionTime' \in stopTimerCompletion(startTime, timerInterval, currentTime,
                                                     completionTime)
          /\ isCompleted' = TRUE
     ELSE UNCHANGED <<timerInterval, completionTime, isCompleted>>
  /\ focusedCell' = firstUnsolvedCell(puzzle, lockedCells')
  /\ storage' = saveState(puzzle, entries', reveals, focusedCell', lockedCells',
                          incorrectCells', completionTime', submitCount', tileCompletions')
  /\ lastOp' = Op("submit", null, allCorrect(puzzle))
  /\ UNCHANGED <<puzzle, reveals, selectedId, startTime, currentTime, served, appVars, editorVars>>

\* ---------------------------------------------------------------- reset
ResetPuzzle ==
  /\ puzzle # NoPuzzle
  /\ entries' = EmptyMap
  /\ reveals' = EmptyMap
  /\ focusedCell' = null
  /\ lockedCells' = {}
  /\ incorrectCells' = {}
  /\ storage' = [storage EXCEPT ![puzzle.id] = NoRecord]
  /\ currentTime' = 0
  /\ isCompleted' = FALSE
  /\ completionTime' = null
  /\ submitCount' = 0
  /\ tileCompletions' = EmptyMap
  /\ startTime' = TRUE
  /\ timerInterval' = TRUE
  /\ lastOp' = Op("reset", null, FALSE)
  /\ UNCHANGED <<puzzle, attempts, selectedId, served, appVars, editorVars>>

\* ---------------------------------------------------------------- specification
Next ==
  \/ Mount
  \/ Reload
  \/ Tick
  \/ \E i \in InputCells, value \in TypedValues : SetEntry(i, value)
  \/ \E i \in InputCells : FocusCell(i)
  \/ GoPrev
  \/ GoNext
  \/ RevealLetter
  \/ HandleSubmit
  \/ ResetPuzzle

Spec == Init /\ [][Next]_vars

TypeOK ==
  /\ attempts \in 0..MaxSubmits
  /\ submitCount \in 0..MaxSubmits
  /\ currentTime \in 0..MaxTime
  /\ lockedCells \subseteq 0..3
  /\ incorrectCells \subseteq 0..3

\* ---------------------------------------------------------------- scoring
\* getTileScore: time * submits of the cell's record, 0 without a record
getTileScore(cellIndex) ==
  IF cellIndex \notin DOMAIN tileCompletions THEN 0
  ELSE tileCompletions[cellIndex].time * tileCompletions[cellIndex].submits

\* the loop of getTotalScore from cell i on
RECURSIVE totalScoreFrom(_)
totalScoreFrom(i) ==
  IF i >= NumCells THEN 0
  ELSE (IF ~isFixed(puzzle, i) /\ isCellUsed(i) THEN getTileScore(i) ELSE 0)
       + totalScoreFrom(i + 1)

\* (variant: every record counts, whatever cell it belongs to)
getTotalScoreAllRecords ==
  IF puzzle = NoPuzzle THEN 0
  ELSE getTileScore(0) + getTileScore(1) + getTileScore(2) + getTileScore(3)

getTotalScore == IF puzzle = NoPuzzle THEN 0 ELSE totalScoreFrom(0)

\* (variant: only the cell's own record is looked at)
wasTileCompletedInOneSubmitOwn(cellIndex) ==
  /\ cellIndex \in DOMAIN tileCompletions
  /\ tileCompletions[cellIndex].submits = 1

\* wasTileCompletedInOneSubmit: false without a record for the cell or without
\* a puzzle, then false at the first used non-fixed cell whose record is
\* missing or has submits # 1
wasTileCompletedInOneSubmit(cellIndex) ==
  IF cellIndex \notin DOMAIN tileCompletions THEN FALSE
  ELSE IF puzzle = NoPuzzle THEN FALSE
  ELSE ~\E i \in 0..(NumCells - 1) :
          /\ ~isFixed(puzzle, i) /\ isCellUsed(i)
          /\ (i \notin DOMAIN tileCompletions \/ tileCompletions[i].submits # 1)

\* UTF-16 code unit order of the letters in use
CharCode(c) ==
  CASE c = "A" -> 65
    [] c = "B" -> 66
    [] c = "a" -> 97
    [] c = "b" -> 98

\* a sorts before b under Array.prototype.sort's default comparison
wordBefore(a, b) ==
  \E k \in 1..Len(b) :
    /\ k - 1 <= Len(a)
    /\ \A j \in 1..(k - 1) : a[j] = b[j]
    /\ \/ k = Len(a) + 1
       \/ k <= Len(a) /\ CharCode(a[k]) < CharCode(b[k])

\* words.sort()
RECURSIVE sortWords(_)
sortWords(ws) ==
  IF ws = <<>> THEN <<>>
  ELSE LET rest == sortWords(Tail(ws))
           n == Cardinality({k \in 1..Len(rest) : wordBefore(rest[k], Head(ws))}) IN
       SubSeq(rest, 1, n) \o <<Head(ws)>> \o SubSeq(rest, n + 1, Len(rest))

\* (variant: the groups stay in the order of their submit numbers)
sortByTimeNone(groups) == groups

\* breakdown.sort((a, b) => a.time - b.time), a stable sort
sortByTime(groups) ==
  LET rank(k) == 1 + Cardinality({j \in 1..Len(groups) :
                                    \/ groups[j].time < groups[k].time
                                    \/ groups[j].time = groups[k].time /\ j < k}) IN
  [pos \in 1..Len(groups) |-> groups[CHOOSE k \in 1..Len(groups) : rank(k) = pos]]

\* the members of a set of numbers in ascending order (the key order of
\* Object.entries and Object.values for integer keys, and the order of the
\* loop over the cells)
RECURSIVE ascending(_)
ascending(S) ==
  IF S = {} THEN <<>>
  ELSE LET m == CHOOSE x \in S : \A y \in S : x <= y IN <<m>> \o ascending(S \ {m})

\* the cells getScoreBreakdown puts in submitGroups[n]
groupTiles(n) ==
  {i \in InputCells : /\ i \in DOMAIN tileCompletions
                      /\ hasSolution(puzzle, i)
                      /\ tileCompletions[i].submits = n}

\* the keys of submitGroups
submitNumbers ==
  {tileCompletions[i].submits :
     i \in {j \in InputCells : j \in DOMAIN tileCompletions /\ hasSolution(puzzle, j)}}

\* Object.values(tileCompletions).find(c => c.submits === n)?.time || 0
groupTime(n) ==
  LET hits == {i \in DOMAIN tileCompletions : tileCompletions[i].submits = n} IN
  IF hits = {} THEN 0
  ELSE tileCompletions[CHOOSE i \in hits : \A j \in hits : i <= j].time

RECURSIVE sumScores(_)
sumScores(tiles) ==
  IF tiles = <<>> THEN 0 ELSE getTileScore(Head(tiles)) + sumScores(Tail(tiles))

\* one element of the breakdown before it is sorted by time
scoreGroup(n) ==
  LET tiles == ascending(groupTiles(n)) IN
  [time |-> groupTime(n),
   words |-> sortWords([k \in 1..Len(tiles) |-> puzzle.solutions[tiles[k]]]),
   totalScore |-> sumScores(tiles)]

getScoreBreakdown ==
  IF puzzle = NoPuzzle THEN <<>>
  ELSE LET keys == ascending(submitNumbers) IN
       sortByTime([k \in 1..Len(keys) |-> scoreGroup(keys[k])])

\* ---------------------------------------------------------------- scoring specification
\* The score functions read puzzle and tileCompletions only; tileCompletions
\* is not cleared when another puzzle is loaded, so it can hold a record for
\* any cell index, with any time and submit number.
ScoreTimes == {0, 12, 30}

ScoreSubmits == {1, 2}

ScoreRecords == [time : ScoreTimes, submits : ScoreSubmits]

InitScore ==
  /\ puzzle \in Puzzles
  /\ selectedId = puzzle.id
  /\ served = puzzle.id
  /\ entries = EmptyMap
  /\ reveals = EmptyMap
  /\ focusedCell = loadPuzzleFocus(puzzle)
  /\ lockedCells = {}
  /\ incorrectCells = {}
  /\ attempts = 0
  /\ startTime = TRUE
  /\ currentTime = 0
  /\ timerInterval = TRUE
  /\ isCompleted = FALSE
  /\ completionTime = null
  /\ submitCount = 0
  /\ \E S \in SUBSET (0..3) : tileCompletions \in [S -> ScoreRecords]
  /\ storage = [id \in PuzzleIds |-> NoRecord]
  /\ mode = "play"
  /\ fetches = <<>>
  /\ index = <<>>
  /\ mounting = FALSE
  /\ rows = 3
  /\ cols = 3
  /\ cells = [i \in 0..8 |-> EmptyCell]
  /\ editCount = 0
  /\ lastOp = Op("init", null, FALSE)

\* the template evaluates getTotalScore()
GetTotalScore ==
  /\ puzzle # NoPuzzle
  /\ lastOp' = Op("getTotalScore", null, getTotalScore)
  /\ UNCHANGED <<puzzle, gameState, selectedId, timerVars, submitCount, tileCompletions,
                 storage, served, appVars, editorVars>>

\* the template evaluates wasTileCompletedInOneSubmit(i) for a rendered cell
WasTileCompletedInOneSubmit(i) ==
  /\ puzzle # NoPuzzle
  /\ i \in InputCells
  /\ lastOp' = Op("wasTileCompletedInOneSubmit", i, wasTileCompletedInOneSubmit(i))
  /\ UNCHANGED <<puzzle, gameState, selectedId, timerVars, submitCount, tileCompletions,
                 storage, served, appVars, editorVars>>

NextScore ==
  \/ GetTotalScore
  \/ \E i \in InputCells : WasTileCompletedInOneSubmit(i)

SpecScore == InitScore /\ [][NextScore]_vars

\* ---------------------------------------------------------------- puzzle list
\* the date field of the puzzle files, YYYY-MM-DD read as the number YYYYMMDD
\* (localeCompare orders two such strings as it orders these numbers)
PuzzleDate(id) ==
  CASE id = "A" -> 20240102
    [] id = "B" -> 20240101
    [] id = "C" -> 20240102

\* the orders in which list.json can name the puzzle files
ListOrders ==
  {fs \in [1..Cardinality(PuzzleIds) -> PuzzleIds] :
     \A k, l \in DOMAIN fs : k # l => fs[k] # fs[l]}

\* (variant: the discovered puzzles are not sorted)
sortByDateNone(list) == list

\* discoveredPuzzles.sort((a, b) => b.date.localeCompare(a.date)), a stable sort
sortByDate(list) ==
  LET rank(k) == 1 + Cardinality({j \in 1..Len(list) :
                                    \/ list[j].date > list[k].date
                                    \/ list[j].date = list[k].date /\ j < k}) IN
  [pos \in 1..Len(list) |-> list[CHOOSE k \in 1..Len(list) : rank(k) = pos]]

\* game.index after fetchPuzzleIndex, given the files list.json names
fetchPuzzleIndex(files) ==
  sortByDate([k \in 1..Len(files) |-> [id |-> files[k], date |-> PuzzleDate(files[k])]])

\* ---------------------------------------------------------------- puzzle switching
\* cap on the number of puzzle selections made in the archive
MaxSelects == 2

\* (variant: the puzzleId guard of loadSavedState is missing)
loadSavedStateFromAnyRecord(p, e, r, f, locked, incorrect, done, ct, sc, tc) ==
  IF p # NoPuzzle /\ storage[p.id] # NoRecord /\ storage[p.id] # CorruptRecord
  THEN LET rec == storage[p.id] IN
       /\ entries' = rec.entries
       /\ reveals' = rec.reveals
       /\ focusedCell' = orNull(rec.focusedCell)
       /\ lockedCells' = rec.lockedCells
       /\ incorrectCells' = rec.incorrectCells
       /\ isCompleted' = IF rec.solved /\ orNull(rec.completionTime) # null THEN TRUE ELSE done
       /\ completionTime' = IF rec.solved /\ orNull(rec.completionTime) # null
                            THEN rec.completionTime ELSE ct
       /\ submitCount' = rec.submitCount
       /\ tileCompletions' = rec.tileCompletions
  ELSE /\ entries' = e
       /\ reveals' = r
       /\ focusedCell' = f
       /\ lockedCells' = locked
       /\ incorrectCells' = incorrect
       /\ isCompleted' = done
       /\ completionTime' = ct
       /\ submitCount' = sc
       /\ tileCompletions' = tc

\* loadSavedState() for puzzle p, run when the session variables hold the
\* values e .. tc
loadSavedStateFrom(p, e, r, f, locked, incorrect, done, ct, sc, tc) ==
  IF hasSavedState(p)
  THEN LET rec == storage[p.id] IN
       /\ entries' = rec.entries
       /\ reveals' = rec.reveals
       /\ focusedCell' = orNull(rec.focusedCell)
       /\ lockedCells' = rec.lockedCells
       /\ incorrectCells' = rec.incorrectCells
       /\ isCompleted' = IF rec.solved /\ orNull(rec.completionTime) # null THEN TRUE ELSE done
       /\ completionTime' = IF rec.solved /\ orNull(rec.completionTime) # null
                            THEN rec.completionTime ELSE ct
       /\ submitCount' = rec.submitCount
       /\ tileCompletions' = rec.tileCompletions
  ELSE /\ entries' = e
       /\ reveals' = r
       /\ focusedCell' = f
       /\ lockedCells' = locked
       /\ incorrectCells' = incorrect
       /\ isCompleted' = done
       /\ completionTime' = ct
       /\ submitCount' = sc
       /\ tileCompletions' = tc

\* a session of PuzzleA as saveState writes it: cell 1 locked by the first submit
RecordOfA ==
  SavedRecord(PuzzleA, (1 :> <<"a", "b">>), EmptyMap, 2, {1}, {}, null, 1,
              (1 :> [time |-> 0, submits |-> 1]))

\* what localStorage can hold for a puzzle when the page is opened (at most
\* one puzzle has an item then)
StoredItems == {NoRecord, CorruptRecord, RecordOfA}

InitSwitch ==
  /\ puzzle = NoPuzzle
  /\ entries = EmptyMap
  /\ reveals = EmptyMap
  /\ focusedCell = null
  /\ lockedCells = {}
  /\ incorrectCells = {}
  /\ attempts = 0
  /\ selectedId = ""
  /\ startTime = FALSE
  /\ currentTime = 0
  /\ timerInterval = FALSE
  /\ isCompleted = FALSE
  /\ completionTime = null
  /\ submitCount = 0
  /\ tileCompletions = EmptyMap
  /\ storage \in [PuzzleIds -> StoredItems]
  /\ Cardinality({id \in PuzzleIds : storage[id] # NoRecord}) <= 1
  /\ served \in PuzzleIds
  /\ mode = "play"
  /\ fetches = <<>>
  /\ index = <<>>
  /\ mounting = FALSE
  /\ rows = 3
  /\ cols = 3
  /\ cells = [i \in 0..8 |-> EmptyCell]
  /\ editCount = 0
  /\ lastOp = Op("init", null, FALSE)

\* the Archive button: MainView is destroyed, ArchiveView is shown
OpenArchive ==
  /\ mode = "play"
  /\ puzzle # NoPuzzle
  /\ mode' = "archive"
  /\ mounting' = FALSE
  /\ startTime' = FALSE
  /\ currentTime' = 0
  /\ timerInterval' = FALSE
  /\ isCompleted' = FALSE
  /\ completionTime' = null
  /\ submitCount' = 0
  /\ tileCompletions' = EmptyMap
  /\ lastOp' = Op("archive", null, FALSE)
  /\ UNCHANGED <<puzzle, gameState, selectedId, storage, served, fetches, index, editorVars>>

\* ArchiveView's onMount: fetchPuzzleIndex() when game.index is empty
ArchiveIndex ==
  /\ mode = "archive"
  /\ index = <<>>
  /\ \E files \in ListOrders : index' = fetchPuzzleIndex(files)
  /\ lastOp' = Op("fetchPuzzleIndex", null, FALSE)
  /\ UNCHANGED <<puzzle, gameState, selectedId, timerVars, submitCount, tileCompletions,
                 storage, served, mode, fetches, mounting, editorVars>>

\* a new MainView is constructed and its $effect runs for the first time:
\* loadSavedState() for the puzzle that is loaded at that moment
constructMainView ==
  /\ mode' = "play"
  /\ mounting' = TRUE
  /\ startTime' = FALSE
  /\ currentTime' = 0
  /\ timerInterval' = FALSE
  /\ loadSavedStateFrom(puzzle, entries, reveals, focusedCell, lockedCells, incorrectCells,
                        FALSE, null, 0, EmptyMap)
  /\ UNCHANGED <<puzzle, attempts, selectedId, storage, served, index, editorVars>>

\* the Play button
PlayMode ==
  /\ mode = "archive"
  /\ constructMainView
  /\ lastOp' = Op("play", null, FALSE)
  /\ UNCHANGED fetches

\* ArchiveView selectPuzzle(id) and App handlePuzzleSelect: mode = 'play' and
\* fetchPuzzleById(id), which is not awaited
SelectPuzzle(id) ==
  /\ mode = "archive"
  /\ Len(fetches) < MaxSelects
  /\ \E k \in DOMAIN index : index[k].id = id
  /\ fetches' = Append(fetches, [id |-> id, status |-> "pending"])
  /\ constructMainView
  /\ lastOp' = Op("puzzleSelect", null, FALSE)

\* the puzzle file a fetch of id resolves to
puzzleFile(id) == CHOOSE p \in Puzzles : p.id = id

\* (variant: selectedId is assigned before the response is checked)
FetchFailSelects(k) ==
  /\ k \in DOMAIN fetches
  /\ fetches[k].status = "pending"
  /\ fetches' = [fetches EXCEPT ![k].status = "failed"]
  /\ selectedId' = fetches[k].id
  /\ lastOp' = Op("fetchPuzzleById", k, FALSE)
  /\ UNCHANGED <<puzzle, gameState, timerVars, submitCount, tileCompletions,
                 storage, served, mode, index, mounting, editorVars>>

\* fetchPuzzleById rejects: the response is not OK or its body is not JSON
\* (lastOp.ret is FALSE for a rejected call)
FetchFail(k) ==
  /\ k \in DOMAIN fetches
  /\ fetches[k].status = "pending"
  /\ fetches' = [fetches EXCEPT ![k].status = "failed"]
  /\ lastOp' = Op("fetchPuzzleById", k, FALSE)
  /\ UNCHANGED <<puzzle, gameState, selectedId, timerVars, submitCount, tileCompletions,
                 storage, served, mode, index, mounting, editorVars>>

\* fetchPuzzleById resolves: loadPuzzle(puzzle), game.selectedId = id, and, if
\* a MainView is mounted, its $effect runs loadSavedState() for the new puzzle
FetchDone(k) ==
  /\ k \in DOMAIN fetches
  /\ fetches[k].status = "pending"
  /\ fetches' = [fetches EXCEPT ![k].status = "loaded"]
  /\ LET p == puzzleFile(fetches[k].id) IN
     /\ puzzle' = p
     /\ selectedId' = fetches[k].id
     /\ attempts' = 0
     /\ IF mode = "play"
        THEN loadSavedStateFrom(p, EmptyMap, EmptyMap, loadPuzzleFocus(p), {}, {},
                                isCompleted, completionTime, submitCount, tileCompletions)
        ELSE /\ entries' = EmptyMap
             /\ reveals' = EmptyMap
             /\ focusedCell' = loadPuzzleFocus(p)
             /\ lockedCells' = {}
             /\ incorrectCells' = {}
             /\ UNCHANGED <<isCompleted, completionTime, submitCount, tileCompletions>>
  /\ lastOp' = Op("fetchPuzzleById", k, TRUE)
  /\ UNCHANGED <<startTime, currentTime, timerInterval, storage, served, mode, index,
                 mounting, editorVars>>

\* MainView's onMount goes on after fetchPuzzleIndex with a puzzle loaded:
\* loadSavedState(), then startTimer() unless the puzzle is solved
MountDone ==
  /\ mode = "play"
  /\ mounting
  /\ puzzle # NoPuzzle
  /\ mounting' = FALSE
  /\ \E files \in ListOrders : index' = fetchPuzzleIndex(files)
  /\ loadSavedStateFrom(puzzle, entries, reveals, focusedCell, lockedCells, incorrectCells,
                        isCompleted, completionTime, submitCount, tileCompletions)
  /\ IF ~isSolvedWith(puzzle, lockedCells') /\ ~startTime
     THEN startTime' = TRUE /\ timerInterval' = TRUE
     ELSE UNCHANGED <<startTime, timerInterval>>
  /\ lastOp' = Op("mounted", null, FALSE)
  /\ UNCHANGED <<puzzle, attempts, selectedId, currentTime, storage, served, mode,
                 fetches, editorVars>>

\* The sessions that are switched between are the ones localStorage holds
\* when the page is opened; the steps of play are those of Spec.
NextSwitch ==
  \/ Mount
  \/ OpenArchive
  \/ ArchiveIndex
  \/ PlayMode
  \/ \E id \in PuzzleIds : SelectPuzzle(id)
  \/ \E k \in 1..MaxSelects : FetchDone(k)
  \/ \E k \in 1..MaxSelects : FetchFail(k)
  \/ MountDone

SpecSwitch == InitSwitch /\ [][NextSwitch]_vars

\* ---------------------------------------------------------------- archive
\* the item of puzzle id parses and carries that puzzleId
archiveRecord(id) ==
  /\ storage[id] # NoRecord
  /\ storage[id] # CorruptRecord
  /\ storage[id].puzzleId = id

\* ArchiveView isPuzzleCompleted
isPuzzleCompleted(id) == archiveRecord(id) /\ storage[id].solved

RECURSIVE sumCompletions(_, _)
\* totalScore += comp.time * comp.submits over the entries with the keys given
sumCompletions(tc, keys) ==
  IF keys = {} THEN 0
  ELSE LET k == CHOOSE x \in keys : TRUE IN
       tc[k].time * tc[k].submits + sumCompletions(tc, keys \ {k})

\* ArchiveView getPuzzleScore (null without a record)
getPuzzleScore(id) ==
  IF archiveRecord(id)
  THEN sumCompletions(storage[id].tileCompletions, DOMAIN storage[id].tileCompletions)
  ELSE null

\* ArchiveView wasCompletedInOneSubmit: submits.size === 1
wasCompletedInOneSubmit(id) ==
  /\ archiveRecord(id)
  /\ Cardinality({storage[id].tileCompletions[i].submits :
                    i \in DOMAIN storage[id].tileCompletions}) = 1

\* a session of puzzle A as saveState leaves it after one submit at second 1
\* that locked cell 1
RecordOfALate ==
  SavedRecord(PuzzleA, (1 :> <<"a", "b">>), EmptyMap, 2, {1}, {}, null, 1,
              (1 :> [time |-> 1, submits |-> 1]))

\* the page is opened with no session or an earlier session of puzzle A in
\* localStorage
InitArchive ==
  /\ puzzle = NoPuzzle
  /\ entries = EmptyMap
  /\ reveals = EmptyMap
  /\ focusedCell = null
  /\ lockedCells = {}
  /\ incorrectCells = {}
  /\ attempts = 0
  /\ selectedId = ""
  /\ startTime = FALSE
  /\ currentTime = 0
  /\ timerInterval = FALSE
  /\ isCompleted = FALSE
  /\ completionTime = null
  /\ submitCount = 0
  /\ tileCompletions = EmptyMap
  /\ \E rec \in {NoRecord, RecordOfA, RecordOfALate} :
       storage = [id \in PuzzleIds |-> IF id = "A" THEN rec ELSE NoRecord]
  /\ served \in PuzzleIds
  /\ mode = "play"
  /\ fetches = <<>>
  /\ index = <<>>
  /\ mounting = FALSE
  /\ rows = 3
  /\ cols = 3
  /\ cells = [i \in 0..8 |-> EmptyCell]
  /\ editCount = 0
  /\ lastOp = Op("init", null, FALSE)

\* the Submit button of the mounted MainView
SubmitInPlay == mode = "play" /\ HandleSubmit

\* switching between the play view and the archive, with submits in between
NextArchive ==
  \/ Mount
  \/ OpenArchive
  \/ ArchiveIndex
  \/ PlayMode
  \/ \E id \in PuzzleIds : SelectPuzzle(id)
  \/ \E k \in 1..MaxSelects : FetchDone(k)
  \/ \E k \in 1..MaxSelects : FetchFail(k)
  \/ MountDone
  \/ SubmitInPlay

SpecArchive == InitArchive /\ [][NextArchive]_vars

\* ---------------------------------------------------------------- editor
\* cap on the number of editor operations
MaxEdits == 3

\* the largest number of rows and of columns of the editor
MaxDim == 12

Max(a, b) == IF a >= b THEN a ELSE b

\* cells[i] ?? { isFixed: false, right: false, down: false }
cellOr(cs, i) == IF i \in DOMAIN cs THEN cs[i] ELSE EmptyCell

\* cells.length: one more than the largest index that was assigned
cellsLength ==
  IF DOMAIN cells = {} THEN 0
  ELSE (CHOOSE i \in DOMAIN cells : \A j \in DOMAIN cells : j <= i) + 1

\* Math.max(1, Math.min(12, Math.floor(n))) for an integer n
clampDim(n) == Max(1, Min(MaxDim, n))

\* (variant: the preserved cells are taken by their old index)
applySizeByIndex(newRows, newCols) ==
  LET r == clampDim(newRows)
      c == clampDim(newCols)
      next == [i \in 0..(r * c - 1) |-> cellOr(cells, i)] IN
  [rows |-> r, cols |-> c,
   cells |-> [i \in 0..(r * c - 1) |->
                [next[i] EXCEPT !.right = IF i % c = c - 1 THEN FALSE ELSE @,
                                !.down = IF i \div c = r - 1 THEN FALSE ELSE @]]]

\* applySize: rows, cols and cells after the call
applySize(newRows, newCols) ==
  LET r == clampDim(newRows)
      c == clampDim(newCols)
      next == [i \in 0..(r * c - 1) |->
                 LET newRow == i \div c
                     newCol == i % c
                     oldIndex == newRow * cols + newCol IN
                 IF oldIndex < cellsLength /\ newRow < rows /\ newCol < cols
                 THEN cellOr(cells, oldIndex)
                 ELSE EmptyCell] IN
  [rows |-> r, cols |-> c,
   cells |-> [i \in 0..(r * c - 1) |->
                [next[i] EXCEPT !.right = IF i % c = c - 1 THEN FALSE ELSE @,
                                !.down = IF i \div c = r - 1 THEN FALSE ELSE @]]]

\* deriveArrows: the arrows of the editor grid
deriveArrows ==
  {[from |-> i, to |-> i + 1, dir |-> "right"] :
     i \in {j \in DOMAIN cells : cells[j].right /\ j % cols < cols - 1}}
  \cup
  {[from |-> i, to |-> i + cols, dir |-> "down"] :
     i \in {j \in DOMAIN cells : cells[j].down /\ j \div cols < rows - 1}}

\* the cells that count for getUsedBounds
boundCells ==
  {i \in DOMAIN cells :
     cells[i].isFixed \/ cells[i].fixed # <<>> \/ cells[i].right \/ cells[i].down}

SetMin(S) == CHOOSE x \in S : \A y \in S : x <= y

SetMax(S) == CHOOSE x \in S : \A y \in S : x >= y

\* getUsedBounds: the box of the cells that are fixed, hold a word or carry a
\* right or down flag; the minima start at rows and cols, the maxima at -1,
\* and a value that never moved is returned as 0
getUsedBounds ==
  LET minRow == SetMin({rows} \cup {i \div cols : i \in boundCells})
      maxRow == SetMax({-1} \cup {i \div cols : i \in boundCells})
      minCol == SetMin({cols} \cup {i % cols : i \in boundCells})
      maxCol == SetMax({-1} \cup {i % cols : i \in boundCells}) IN
  [minRow |-> IF minRow = rows THEN 0 ELSE minRow,
   maxRow |-> IF maxRow = -1 THEN 0 ELSE maxRow,
   minCol |-> IF minCol = cols THEN 0 ELSE minCol,
   maxCol |-> IF maxCol = -1 THEN 0 ELSE maxCol]

\* the cells of the box, re-indexed (trimGrid and autoTrim build the same array)
trimmedCells(bounds) ==
  LET trimmedRows == bounds.maxRow - bounds.minRow + 1
      trimmedCols == bounds.maxCol - bounds.minCol + 1 IN
  [newIndex \in 0..(trimmedRows * trimmedCols - 1) |->
     cellOr(cells, (bounds.minRow + (newIndex \div trimmedCols)) * cols
                   + bounds.minCol + (newIndex % trimmedCols))]

\* (variant: a fixed cell's word is exported as a solution too)
trimmedSolutionsAll(tcells) ==
  [i \in {j \in DOMAIN tcells : tcells[j].fixed # <<>>} |-> tcells[i].fixed]

\* trimmedSolutions of trimGrid: the word of every cell that is not fixed
trimmedSolutions(tcells) ==
  [i \in {j \in DOMAIN tcells : ~tcells[j].isFixed /\ tcells[j].fixed # <<>>} |->
     tcells[i].fixed]

trimGrid ==
  LET bounds == getUsedBounds
      tcells == trimmedCells(bounds) IN
  [rows |-> bounds.maxRow - bounds.minRow + 1,
   cols |-> bounds.maxCol - bounds.minCol + 1,
   cells |-> tcells,
   solutions |-> trimmedSolutions(tcells)]

\* (variant: the last column and the last row are not excluded)
deriveArrowsForTrimmedNoEdge(trimmedRows, trimmedCols, tcells) ==
  {[from |-> i, to |-> i + 1, dir |-> "right"] : i \in {j \in DOMAIN tcells : tcells[j].right}}
  \cup
  {[from |-> i, to |-> i + trimmedCols, dir |-> "down"] :
     i \in {j \in DOMAIN tcells : tcells[j].down}}

deriveArrowsForTrimmed(trimmedRows, trimmedCols, tcells) ==
  {[from |-> i, to |-> i + 1, dir |-> "right"] :
     i \in {j \in DOMAIN tcells : tcells[j].right /\ j % trimmedCols < trimmedCols - 1}}
  \cup
  {[from |-> i, to |-> i + trimmedCols, dir |-> "down"] :
     i \in {j \in DOMAIN tcells : tcells[j].down /\ j \div trimmedCols < trimmedRows - 1}}

\* buildPuzzle: the exported grid and solutions (id, date, title and author
\* come from the metadata form)
buildPuzzle ==
  LET trimmed == trimGrid IN
  [rows |-> trimmed.rows,
   cols |-> trimmed.cols,
   cells |-> [i \in DOMAIN trimmed.cells |->
                [fixed |-> IF trimmed.cells[i].isFixed /\ trimmed.cells[i].fixed # <<>>
                           THEN trimmed.cells[i].fixed ELSE <<>>]],
   arrows |-> deriveArrowsForTrimmed(trimmed.rows, trimmed.cols, trimmed.cells),
   solutions |-> trimmed.solutions]

\* 2x3 grid with two unused cells; its used cells touch all four borders
PuzzleD ==
  [id |-> "D", rows |-> 2, cols |-> 3,
   cells |-> [i \in 0..5 |-> [fixed |-> IF i = 0 THEN <<"a">> ELSE <<>>]],
   arrows |-> {[from |-> 0, to |-> 1, dir |-> "right"],
               [from |-> 1, to |-> 4, dir |-> "down"],
               [from |-> 4, to |-> 5, dir |-> "right"]},
   solutions |-> [i \in {1, 4, 5} |->
                    IF i = 1 THEN <<"a", "b">> ELSE IF i = 4 THEN <<"b", "a">> ELSE <<"b">>]]

\* 1x13 grid, wider than the editor allows
PuzzleWide ==
  [id |-> "W", rows |-> 1, cols |-> 13,
   cells |-> [i \in 0..12 |-> [fixed |-> IF i = 0 THEN <<"a">> ELSE <<>>]],
   arrows |-> {[from |-> 0, to |-> 1, dir |-> "right"]},
   solutions |-> [i \in {1, 12} |-> <<"a", "b">>]]

\* the puzzles that are imported
ImportPuzzles == Puzzles \cup {PuzzleD, PuzzleWide}

\* the cells whose controls are used, the words typed into them, and the
\* arguments applySize is called with
EditedCells == {0, 1}

EditorWords == { <<>>, <<"a">> }

ResizeTargets == { <<13, 1>>, <<0, 12>>, <<2, 4>> }

\* EditorView is mounted: a 3x3 grid of empty cells
InitEditor ==
  /\ puzzle = NoPuzzle
  /\ entries = EmptyMap
  /\ reveals = EmptyMap
  /\ focusedCell = null
  /\ lockedCells = {}
  /\ incorrectCells = {}
  /\ attempts = 0
  /\ selectedId = ""
  /\ startTime = FALSE
  /\ currentTime = 0
  /\ timerInterval = FALSE
  /\ isCompleted = FALSE
  /\ completionTime = null
  /\ submitCount = 0
  /\ tileCompletions = EmptyMap
  /\ storage = [id \in PuzzleIds |-> NoRecord]
  /\ served \in PuzzleIds
  /\ mode = "edit"
  /\ fetches = <<>>
  /\ index = <<>>
  /\ mounting = FALSE
  /\ rows = 3
  /\ cols = 3
  /\ cells = [i \in 0..8 |-> EmptyCell]
  /\ editCount = 0
  /\ lastOp = Op("init", null, FALSE)

\* one more editor operation; nothing outside the editor changes
editStep(name, arg) ==
  /\ mode = "edit"
  /\ editCount < MaxEdits
  /\ editCount' = editCount + 1
  /\ lastOp' = Op(name, arg, FALSE)
  /\ UNCHANGED <<puzzle, gameState, selectedId, timerVars, submitCount,
                 tileCompletions, storage, served, appVars>>

\* the word input of cell i
InputWord(i, val) ==
  /\ i \in 0..(rows * cols - 1)
  /\ cells' = [j \in DOMAIN cells \cup {i} |->
                IF j = i THEN [cellOr(cells, i) EXCEPT !.fixed = val] ELSE cells[j]]
  /\ UNCHANGED <<rows, cols>>
  /\ editStep("input", i)

\* the lock button of cell i
ToggleLock(i) ==
  /\ i \in 0..(rows * cols - 1)
  /\ cells' = [j \in DOMAIN cells \cup {i} |->
                IF j = i THEN [cellOr(cells, i) EXCEPT !.isFixed = ~@] ELSE cells[j]]
  /\ UNCHANGED <<rows, cols>>
  /\ editStep("lock", i)

\* the right checkbox of cell i, which the last column does not show
ToggleRight(i) ==
  /\ i \in 0..(rows * cols - 1)
  /\ i % cols # cols - 1
  /\ cells' = [j \in DOMAIN cells \cup {i} |->
                IF j = i THEN [cellOr(cells, i) EXCEPT !.right = ~@] ELSE cells[j]]
  /\ UNCHANGED <<rows, cols>>
  /\ editStep("right", i)

\* the down checkbox of cell i, which the last row does not show
ToggleDown(i) ==
  /\ i \in 0..(rows * cols - 1)
  /\ i \div cols # rows - 1
  /\ cells' = [j \in DOMAIN cells \cup {i} |->
                IF j = i THEN [cellOr(cells, i) EXCEPT !.down = ~@] ELSE cells[j]]
  /\ UNCHANGED <<rows, cols>>
  /\ editStep("down", i)

\* applySize(newRows, newCols)
ApplySize(newRows, newCols) ==
  /\ rows' = applySize(newRows, newCols).rows
  /\ cols' = applySize(newRows, newCols).cols
  /\ cells' = applySize(newRows, newCols).cells
  /\ editStep("applySize", <<newRows, newCols>>)

InsertRowAtTop ==
  /\ IF rows >= MaxDim
     THEN UNCHANGED <<rows, cols, cells>>
     ELSE /\ rows' = rows + 1
          /\ cols' = cols
          /\ cells' = [j \in (0..(cols - 1)) \cup {i + cols : i \in DOMAIN cells} |->
                         IF j < cols THEN EmptyCell ELSE cells[j - cols]]
  /\ editStep("insertRowAtTop", null)

InsertRowAtBottom ==
  /\ IF rows >= MaxDim
     THEN UNCHANGED <<rows, cols, cells>>
     ELSE /\ rows' = applySize(rows + 1, cols).rows
          /\ cols' = applySize(rows + 1, cols).cols
          /\ cells' = applySize(rows + 1, cols).cells
  /\ editStep("insertRowAtBottom", null)

InsertColumnAtLeft ==
  /\ IF cols >= MaxDim
     THEN UNCHANGED <<rows, cols, cells>>
     ELSE /\ rows' = rows
          /\ cols' = cols + 1
          /\ cells' = [j \in {row * (cols + 1) : row \in 0..(rows - 1)}
                               \cup {(i \div cols) * (cols + 1) + (i % cols) + 1 :
                                       i \in DOMAIN cells} |->
                         IF j % (cols + 1) = 0 /\ j \div (cols + 1) < rows
                         THEN EmptyCell
                         ELSE cells[(j \div (cols + 1)) * cols + (j % (cols + 1)) - 1]]
  /\ editStep("insertColumnAtLeft", null)

InsertColumnAtRight ==
  /\ IF cols >= MaxDim
     THEN UNCHANGED <<rows, cols, cells>>
     ELSE /\ rows' = applySize(rows, cols + 1).rows
          /\ cols' = applySize(rows, cols + 1).cols
          /\ cells' = applySize(rows, cols + 1).cells
  /\ editStep("insertColumnAtRight", null)

\* the "Auto-trim unused" button
AutoTrim ==
  /\ LET bounds == getUsedBounds IN
     IF \/ bounds.minRow > 0 \/ bounds.maxRow < rows - 1
        \/ bounds.minCol > 0 \/ bounds.maxCol < cols - 1
     THEN /\ rows' = bounds.maxRow - bounds.minRow + 1
          /\ cols' = bounds.maxCol - bounds.minCol + 1
          /\ cells' = trimmedCells(bounds)
     ELSE UNCHANGED <<rows, cols, cells>>
  /\ editStep("autoTrim", null)

\* (variant: the word of a cell is taken from the fixed word only)
importedCellFixedOnly(p, i) ==
  LET fixedWord == IF i \in DOMAIN p.cells THEN p.cells[i].fixed ELSE <<>> IN
  [isFixed |-> fixedWord # <<>>,
   fixed |-> fixedWord,
   right |-> \E a \in p.arrows : a.from = i /\ a.dir = "right",
   down |-> \E a \in p.arrows : a.from = i /\ a.dir = "down"]

\* the editor cell loadFromPuzzle builds for index i of puzzle p
importedCell(p, i) ==
  LET fixedWord == IF i \in DOMAIN p.cells THEN p.cells[i].fixed ELSE <<>>
      solutionWord == Get(p.solutions, i) IN
  [isFixed |-> fixedWord # <<>>,
   fixed |-> IF fixedWord # <<>> THEN fixedWord ELSE solutionWord,
   right |-> \E a \in p.arrows : a.from = i /\ a.dir = "right",
   down |-> \E a \in p.arrows : a.from = i /\ a.dir = "down"]

\* Import JSON: applySize sets rows and cols, then the cells are rebuilt
\* from the puzzle, one for each of its rows * cols indices
LoadFromPuzzle(p) ==
  /\ rows' = applySize(p.rows, p.cols).rows
  /\ cols' = applySize(p.rows, p.cols).cols
  /\ cells' = [i \in 0..(p.rows * p.cols - 1) |-> importedCell(p, i)]
  /\ editStep("loadFromPuzzle", p.id)

\* Export JSON / Copy JSON: buildPuzzle is serialised; the editor keeps its state
Export ==
  /\ mode = "edit"
  /\ lastOp' = Op("buildPuzzle", null, buildPuzzle)
  /\ UNCHANGED <<puzzle, gameState, selectedId, timerVars, submitCount,
                 tileCompletions, storage, served, appVars, editorVars>>

NextEditor ==
  \/ \E i \in EditedCells, val \in EditorWords : InputWord(i, val)
  \/ \E i \in EditedCells : ToggleLock(i)
  \/ \E i \in EditedCells : ToggleRight(i)
  \/ \E i \in EditedCells : ToggleDown(i)
  \/ \E t \in ResizeTargets : ApplySize(t[1], t[2])
  \/ InsertRowAtTop
  \/ InsertRowAtBottom
  \/ InsertColumnAtLeft
  \/ InsertColumnAtRight
  \/ AutoTrim
  \/ \E p \in ImportPuzzles : LoadFromPuzzle(p)
  \/ Export

SpecEditor == InitEditor /\ [][NextEditor]_vars

\* ---------------------------------------------------------------- properties
\* a is a prefix of b
IsPrefix(a, b) == Len(a) <= Len(b) /\ \A k \in 1..Len(a) : a[k] = b[k]

SolutionCells == DOMAIN puzzle.solutions

\* a step of setEntry, focus, navigation, revealLetter or submit
PlayStep ==
  \/ \E i \in InputCells, value \in TypedValues : SetEntry(i, value)
  \/ \E i \in InputCells : FocusCell(i)
  \/ GoPrev
  \/ GoNext
  \/ RevealLetter
  \/ HandleSubmit

\* C1: after a submit, a solution cell shows its solution exactly when it is
\* locked.
C1_DisplayCorrectIffLocked ==
  lastOp.op = "submit" =>
    \A i \in SolutionCells :
      (getDisplayValue(i) = puzzle.solutions[i]) <=> (i \in lockedCells)

\* C2: submit returns true exactly when every solution cell is locked after
\* the call.
C2_SubmitReturnsSolved ==
  lastOp.op = "submit" => (lastOp.ret <=> isSolved)

\* C3: a submit locks every unlocked solution cell whose display value equals
\* its solution and takes it out of incorrectCells.
C3_SubmitLocksCorrect ==
  [][HandleSubmit =>
       \A i \in SolutionCells :
         (i \notin lockedCells /\ Get(reveals, i) \o Get(entries, i) = puzzle.solutions[i])
           => (i \in lockedCells' /\ i \notin incorrectCells')]_vars

C3_Witness ==
  /\ lastOp.op = "submit"
  /\ \E i \in lockedCells :
       /\ i \in DOMAIN tileCompletions
       /\ tileCompletions[i].submits = submitCount
       /\ Get(reveals, i) # <<>>
       /\ Get(entries, i) # <<>>

C5_LockedDisplayFrozen ==
  [][PlayStep =>
       \A i \in lockedCells :
         Get(reveals', i) \o Get(entries', i) = Get(reveals, i) \o Get(entries, i)]_vars

\* C6: lockedCells never loses a cell except in a reset or a puzzle load.
C6_LockedOnlyGrows ==
  [][\/ lockedCells \subseteq lockedCells'
     \/ ResetPuzzle
     \/ Reload
     \/ Mount]_vars

C6_Witness ==
  /\ lastOp.op = "submit"
  /\ submitCount = 2
  /\ \E i \in lockedCells : i \in DOMAIN tileCompletions /\ tileCompletions[i].submits = 1

\* C7: reset gives the PlayState of a freshly loaded puzzle: empty maps and
\* sets, attempts 0, and the focusedCell that loadPuzzle sets.
C7_ResetIsFreshLoad ==
  lastOp.op = "reset" =>
    /\ entries = EmptyMap
    /\ reveals = EmptyMap
    /\ lockedCells = {}
    /\ incorrectCells = {}
    /\ attempts = 0
    /\ focusedCell = loadPuzzleFocus(puzzle)

\* C8: revealLetter on a focused non-fixed solution cell makes the reveal the
\* lower-cased solution prefix of length min(old length + 1, solution length),
\* empties the entry and clears the incorrect mark; every reveal is a prefix
\* of its lower-cased solution.
C8_RevealStep ==
  (RevealLetter /\ ~revealSkipped) =>
    LET i == focusedCell
        sol == puzzle.solutions[i] IN
    /\ Len(Get(reveals', i)) = Min(Len(Get(reveals, i)) + 1, Len(sol))
    /\ IsPrefix(Get(reveals', i), toLowerCase(sol))
    /\ Get(entries', i) = <<>>
    /\ i \notin incorrectCells'

C8_RevealIsPrefix ==
  \A i \in DOMAIN reveals :
    i \in SolutionCells /\ IsPrefix(reveals[i], toLowerCase(puzzle.solutions[i]))

C8_RevealLowercasePrefix == [][C8_RevealStep]_vars /\ []C8_RevealIsPrefix

C8_Witness ==
  /\ lastOp.op = "revealLetter"
  /\ puzzle = PuzzleB
  /\ Get(reveals, 3) = <<"a">>
  /\ 3 \notin DOMAIN entries

\* a step that neither resets nor loads keeps every reveal at least as long
RevealsNeverShrink ==
  \/ \A i \in DOMAIN reveals : Len(Get(reveals', i)) >= Len(reveals[i])
  \/ ResetPuzzle
  \/ Reload
  \/ Mount

\* C9: reveals grow monotonically up to the solution length, and a
\* revealLetter on a fully revealed cell changes nothing in the PlayState.
C9_RevealThenNoOp ==
  [][/\ RevealsNeverShrink
     /\ (RevealLetter /\ fullyRevealed) =>
          /\ \A j \in CellIndices(puzzle) :
               /\ Get(entries', j) = Get(entries, j)
               /\ Get(reveals', j) = Get(reveals, j)
          /\ UNCHANGED <<lockedCells, incorrectCells, focusedCell, attempts>>]_vars

\* C9 as amended: reveals grow by one letter per revealLetter and never shrink
\* between resets; on a fully revealed cell revealLetter keeps reveals,
\* lockedCells, focusedCell, attempts and every other cell, but still empties
\* the cell's entry and clears its incorrect mark.
C9_RevealGrowsThenOnlyClears ==
  [][/\ RevealsNeverShrink
     /\ (RevealLetter /\ ~revealSkipped /\ ~fullyRevealed) =>
          Len(Get(reveals', focusedCell)) = Len(Get(reveals, focusedCell)) + 1
     /\ (RevealLetter /\ fullyRevealed) =>
          /\ \A j \in CellIndices(puzzle) :
               /\ Get(reveals', j) = Get(reveals, j)
               /\ j # focusedCell => /\ Get(entries', j) = Get(entries, j)
                                     /\ (j \in incorrectCells') = (j \in incorrectCells)
          /\ Get(entries', focusedCell) = <<>>
          /\ focusedCell \notin incorrectCells'
          /\ UNCHANGED <<lockedCells, focusedCell, attempts>>]_vars

C9_Witness ==
  /\ lastOp.op = "revealLetter"
  /\ lastOp.ret
  /\ lastOp.cell = focusedCell
  /\ Len(Get(reveals, focusedCell)) = Len(puzzle.solutions[focusedCell])

\* C10: setEntry on a locked cell changes nothing in the PlayState.
C10_SetEntryLockedNoOp ==
  [][(lastOp'.op = "setEntry" /\ lastOp'.cell \in lockedCells) => UNCHANGED gameState]_vars

C10_Witness ==
  /\ lastOp.op = "setEntry"
  /\ lastOp.cell \in lockedCells
  /\ getDisplayValue(lastOp.cell) = puzzle.solutions[lastOp.cell]

\* C11: setEntry with a value shorter than the cell's revealed prefix is
\* rejected: entries, reveals, focusedCell, lockedCells, incorrectCells and
\* attempts are all unchanged.
C11_SetEntryTooShortRejected ==
  [][lastOp'.op = "setEntry" =>
       \A value \in TypedValues :
         (/\ Len(value) < Len(Get(reveals, lastOp'.cell))
          /\ SetEntry(lastOp'.cell, value))
         => UNCHANGED gameState]_vars

\* a setEntry on an unlocked cell with a revealed letter has left the cell
\* marked incorrect, so the call was rejected for its length
C11_Witness ==
  /\ lastOp.op = "setEntry"
  /\ lastOp.cell \notin lockedCells
  /\ lastOp.cell \in incorrectCells
  /\ Get(reveals, lastOp.cell) # <<>>

\* C12: setEntry on an unlocked cell with a value at least as long as the
\* revealed prefix stores the lower-cased value without its first
\* len(reveals[i]) characters, unmarks the cell as incorrect, and leaves
\* reveals, every other entry, lockedCells, attempts and the focus alone; the
\* displayed value still starts with the revealed prefix.
C12_SetEntryStoresSuffix ==
  [][lastOp'.op = "setEntry" =>
       \A value \in TypedValues :
         LET i == lastOp'.cell
             n == Len(Get(reveals, i)) IN
         (/\ Len(value) >= n
          /\ i \notin lockedCells
          /\ SetEntry(i, value))
         => /\ i \in DOMAIN entries'
            /\ Len(entries'[i]) = Len(value) - n
            /\ \A k \in 1..(Len(value) - n) : entries'[i][k] = LowerChar(value[n + k])
            /\ incorrectCells' = incorrectCells \ {i}
            /\ reveals' = reveals
            /\ \A j \in (DOMAIN entries \cup DOMAIN entries') \ {i} :
                 /\ j \in DOMAIN entries /\ j \in DOMAIN entries'
                 /\ entries'[j] = entries[j]
            /\ UNCHANGED <<lockedCells, attempts, focusedCell>>
            /\ IsPrefix(Get(reveals', i), Get(reveals', i) \o Get(entries', i))
            /\ Len(Get(reveals', i) \o Get(entries', i)) = Len(value)]_vars

\* a setEntry has stored a non-empty suffix behind a revealed prefix
C12_Witness ==
  /\ lastOp.op = "setEntry"
  /\ lastOp.cell \notin lockedCells
  /\ lastOp.cell \notin incorrectCells
  /\ Get(reveals, lastOp.cell) # <<>>
  /\ Get(entries, lastOp.cell) # <<>>

\* C13: revealLetter changes nothing when no cell is focused, when the focused
\* cell is fixed, or when the focused cell has no solution.
C13_RevealSkippedNoOp ==
  [][(/\ RevealLetter
      /\ \/ focusedCell = null
         \/ puzzle.cells[focusedCell].fixed # <<>>
         \/ focusedCell \notin DOMAIN puzzle.solutions)
     => UNCHANGED <<gameState, storage, tileCompletions>>]_vars

\* revealLetter ran on a focused cell without a solution that holds a typed entry
C13_Witness ==
  /\ lastOp.op = "revealLetter"
  /\ lastOp.cell = focusedCell
  /\ focusedCell # null
  /\ focusedCell \notin DOMAIN puzzle.solutions
  /\ Get(entries, focusedCell) # <<>>

\* revealLetter ran with no cell focused
C13_WitnessNoFocus ==
  /\ lastOp.op = "revealLetter"
  /\ focusedCell = null
  /\ entries # EmptyMap

\* revealLetter ran with a fixed cell focused
C13_WitnessFixed ==
  /\ lastOp.op = "revealLetter"
  /\ focusedCell # null
  /\ puzzle.cells[focusedCell].fixed # <<>>

\* C14: attempts counts submits: every submit adds exactly 1 to attempts (on
\* a solved puzzle submitAnswers changes nothing else: entries, reveals,
\* lockedCells and incorrectCells stay; the focus is moved by the view's
\* focusFirstUnsolvedCell afterwards), no other operation changes attempts,
\* and reset and puzzle load set it back to 0.
C14_AttemptsCountsSubmits ==
  [][/\ HandleSubmit => attempts' = attempts + 1
     /\ (HandleSubmit /\ isSolved) =>
          UNCHANGED <<entries, reveals, lockedCells, incorrectCells>>
     /\ attempts' # attempts => (HandleSubmit \/ ResetPuzzle \/ Mount \/ Reload)
     /\ ResetPuzzle => attempts' = 0
     /\ Mount => attempts' = 0]_vars

\* C15: isSolved holds exactly when a puzzle is loaded and every key of
\* solutions is in lockedCells, and once it holds it keeps holding until a
\* reset or a puzzle load.
C15_SolvedStaysSolved ==
  /\ [](isSolved <=> (puzzle # NoPuzzle /\ SolutionCells \subseteq lockedCells))
  /\ [][isSolved =>
         \/ puzzle' # NoPuzzle /\ DOMAIN puzzle'.solutions \subseteq lockedCells'
         \/ ResetPuzzle
         \/ Reload]_vars

\* every solution cell was locked by the first submit, and a second submit
\* ran on the solved puzzle
C15_Witness ==
  /\ isSolved
  /\ SolutionCells # {}
  /\ lastOp.op = "submit"
  /\ submitCount = 2
  /\ \A i \in SolutionCells :
       i \in DOMAIN tileCompletions /\ tileCompletions[i].submits = 1

\* C16: submit is case-insensitive: a solution cell whose displayed value
\* equals the stored solution ignoring letter case is locked by the submit.
C16_SubmitCaseInsensitive ==
  [][HandleSubmit =>
       \A i \in SolutionCells :
         toLowerCase(getDisplayValue(i)) = toLowerCase(puzzle.solutions[i])
         => i \in lockedCells']_vars

\* C17: a solution cell that a submit locks gets the record {time: elapsed
\* seconds, submits: attempts} of that submit, and a record once written is
\* kept as it is until the session ends (reset or puzzle load).
C17_CompletionRecordedOnce ==
  [][/\ HandleSubmit =>
          \A i \in (lockedCells' \ lockedCells) \ DOMAIN tileCompletions :
            /\ i \in DOMAIN tileCompletions'
            /\ tileCompletions'[i] = [time |-> currentTime, submits |-> attempts']
     /\ (puzzle # NoPuzzle /\ ~ResetPuzzle /\ ~Reload) =>
          \A i \in DOMAIN tileCompletions :
            i \in DOMAIN tileCompletions' /\ tileCompletions'[i] = tileCompletions[i]]_vars

\* the sum of f over the finite set S
RECURSIVE SumOver(_, _)
SumOver(f, S) ==
  IF S = {} THEN 0
  ELSE LET x == CHOOSE y \in S : TRUE IN f[x] + SumOver(f, S \ {x})

\* C18: a cell's score is time * submits of its record (0 without one), and
\* the total score is the sum of the cell scores over the used, non-fixed
\* cells only; records (12,1) and (30,2) on the two such cells give 72.
C18_TotalScoreIsSum ==
  lastOp.op = "getTotalScore" =>
    LET scored == {i \in CellIndices(puzzle) :
                     /\ puzzle.cells[i].fixed = <<>>
                     /\ isCellUsed(i)
                     /\ i \in DOMAIN tileCompletions}
        score == [i \in scored |-> tileCompletions[i].time * tileCompletions[i].submits] IN
    /\ lastOp.ret = SumOver(score, scored)
    /\ \A i \in 0..3 :
         getTileScore(i) = IF i \in DOMAIN tileCompletions
                           THEN tileCompletions[i].time * tileCompletions[i].submits
                           ELSE 0
    /\ (/\ puzzle = PuzzleA
        /\ {1, 2} \subseteq DOMAIN tileCompletions
        /\ tileCompletions[1] = [time |-> 12, submits |-> 1]
        /\ tileCompletions[2] = [time |-> 30, submits |-> 2])
       => (getTileScore(1) = 12 /\ getTileScore(2) = 60 /\ lastOp.ret = 72)

\* the total of records (12,1) and (30,2) was computed while a fixed cell
\* also holds a record
C18_Witness ==
  /\ lastOp.op = "getTotalScore"
  /\ lastOp.ret = 72
  /\ puzzle = PuzzleA
  /\ DOMAIN tileCompletions = {0, 1, 2}
  /\ getTileScore(0) > 0
  /\ tileCompletions[1] = [time |-> 12, submits |-> 1]
  /\ tileCompletions[2] = [time |-> 30, submits |-> 2]

\* C19: the one-submit indicator of a rendered cell holds exactly when every
\* used, non-fixed cell has a record with submits = 1.
C19_OneSubmitIffAllFirst ==
  lastOp.op = "wasTileCompletedInOneSubmit" =>
    (lastOp.ret <=>
       \A j \in InputCells :
         j \in DOMAIN tileCompletions /\ tileCompletions[j].submits = 1)

\* the indicator was found to hold on a puzzle with two solution cells
C19_Witness ==
  /\ lastOp.op = "wasTileCompletedInOneSubmit"
  /\ lastOp.ret = TRUE
  /\ puzzle = PuzzleA
  /\ tileCompletions[1].time # tileCompletions[2].time

\* the indicator was found not to hold for a cell whose own record has submits = 1
C19_WitnessOther ==
  /\ lastOp.op = "wasTileCompletedInOneSubmit"
  /\ lastOp.ret = FALSE
  /\ lastOp.cell \in DOMAIN tileCompletions
  /\ tileCompletions[lastOp.cell].submits = 1

\* C20: the score breakdown has one group per submit number among the
\* completed used non-fixed cells; a group carries the time recorded for that
\* submit and the words solved by it in alphabetical order, and the groups
\* are listed by ascending time.
C20_BreakdownGroups ==
  puzzle # NoPuzzle =>
    LET bd == getScoreBreakdown
        done == {i \in InputCells : i \in DOMAIN tileCompletions}
        round(n) == {i \in done : tileCompletions[i].submits = n}
        rounds == {tileCompletions[i].submits : i \in done} IN
    /\ Len(bd) = Cardinality(rounds)
    /\ \A n \in rounds :
         \E k \in 1..Len(bd) :
           /\ Len(bd[k].words) = Cardinality(round(n))
           /\ {bd[k].words[m] : m \in 1..Len(bd[k].words)}
                = {puzzle.solutions[i] : i \in round(n)}
           /\ \A i \in round(n) : bd[k].time = tileCompletions[i].time
    /\ \A k \in 1..Len(bd) :
         \A m1, m2 \in 1..Len(bd[k].words) :
           m1 < m2 => ~wordBefore(bd[k].words[m2], bd[k].words[m1])
    /\ \A k, l \in 1..Len(bd) : k < l => bd[k].time <= bd[l].time

\* two groups, the later submit listed first because its recorded time is
\* the smaller one (the session was restored in between)
C20_Witness ==
  /\ puzzle = PuzzleA
  /\ Len(getScoreBreakdown) = 2
  /\ tileCompletions[1].submits < tileCompletions[2].submits
  /\ tileCompletions[1].time > tileCompletions[2].time
  /\ getScoreBreakdown[1].words = <<puzzle.solutions[2]>>

\* one group with the two words of one submit, in alphabetical order
C20_WitnessTwoWords ==
  /\ puzzle = PuzzleA
  /\ Len(getScoreBreakdown) = 1
  /\ getScoreBreakdown[1].words = <<puzzle.solutions[1], puzzle.solutions[2]>>

\* C21: when a fetch loads another puzzle that has no persisted session
\* record, entries, reveals, lockedCells and incorrectCells are empty and the
\* submit count and tileCompletions hold nothing of the puzzle played before.
C21_SwitchDiscardsSession ==
  [][\A k \in 1..MaxSelects :
       (/\ FetchDone(k)
        /\ mode = "play"
        /\ fetches[k].id # puzzle.id
        /\ ~hasSavedState(puzzleFile(fetches[k].id)))
       => /\ entries' = EmptyMap
          /\ reveals' = EmptyMap
          /\ lockedCells' = {}
          /\ incorrectCells' = {}
          /\ submitCount' = 0
          /\ tileCompletions' = EmptyMap]_vars

\* C22: once every fetch the player started has completed and the one started
\* last has loaded its puzzle, that puzzle is the one loaded and selected; and
\* selectedId always names the loaded puzzle.
C22_LastSelectionWins ==
  /\ puzzle # NoPuzzle => selectedId = puzzle.id
  /\ (/\ fetches # <<>>
      /\ \A k \in DOMAIN fetches : fetches[k].status # "pending"
      /\ fetches[Len(fetches)].status = "loaded")
     => /\ puzzle.id = fetches[Len(fetches)].id
        /\ selectedId = fetches[Len(fetches)].id

\* C23: a fetch that fails is reported as a failure and leaves the puzzle,
\* selectedId and the PlayState as they were.
C23_FailedFetchNoChange ==
  [][\A k \in 1..MaxSelects :
       FetchFail(k) => /\ UNCHANGED <<puzzle, selectedId, gameState>>
                       /\ lastOp'.ret = FALSE
                       /\ fetches'[k].status = "failed"]_vars

\* the fetch of another puzzle than the loaded one has failed
C23_Witness ==
  /\ lastOp.op = "fetchPuzzleById"
  /\ lastOp.ret = FALSE
  /\ fetches[lastOp.cell].status = "failed"
  /\ puzzle # NoPuzzle
  /\ fetches[lastOp.cell].id # puzzle.id
  /\ selectedId = puzzle.id

\* C24: loadSavedState with a stored item that does not parse or whose
\* puzzleId is not the loaded puzzle's id changes nothing: PlayState, submit
\* count, tileCompletions and completion status stay as they were (in a
\* MainView that was just constructed: as it was constructed).
C24_StaleRecordIgnored ==
  [][(/\ puzzle # NoPuzzle
      /\ \/ storage[puzzle.id] = CorruptRecord
         \/ storage[puzzle.id] # NoRecord /\ storage[puzzle.id].puzzleId # puzzle.id)
     => /\ MountDone => UNCHANGED <<gameState, submitCount, tileCompletions,
                                     isCompleted, completionTime>>
        /\ PlayMode => /\ UNCHANGED gameState
                       /\ submitCount' = 0
                       /\ tileCompletions' = EmptyMap
                       /\ isCompleted' = FALSE
                       /\ completionTime' = null]_vars

\* loadSavedState ran for a puzzle whose stored item is another puzzle's record
C24_Witness ==
  /\ lastOp.op = "mounted"
  /\ storage[puzzle.id] = RecordOfA
  /\ puzzle.id # "A"
  /\ entries = EmptyMap
  /\ lockedCells = {}
  /\ submitCount = 0
  /\ tileCompletions = EmptyMap

\* loadSavedState ran for a puzzle whose stored item does not parse
C24_WitnessCorrupt ==
  /\ lastOp.op = "mounted"
  /\ storage[puzzle.id] = CorruptRecord

\* C25: game.index is sorted by date, newest first.
C25_IndexSortedByDate ==
  \A k, l \in DOMAIN index : k < l => index[k].date >= index[l].date

\* the index holds all three puzzles, the oldest one last
C25_Witness ==
  /\ lastOp.op = "fetchPuzzleIndex"
  /\ Len(index) = 3
  /\ index[3].id = "B"
  /\ index[1].id = "C"

\* C26: applySize(newRows, newCols) clamps each axis to 1..12; every position
\* inside both the old and the new grid keeps its word and its fixed flag at
\* the same row and column, the cells outside the new grid are gone, and
\* every position the old grid did not have holds an empty cell without flags.
C26_ResizeAligned ==
  [][lastOp'.op = "applySize" =>
       LET newRows == lastOp'.cell[1]
           newCols == lastOp'.cell[2] IN
       /\ rows' = (IF newRows < 1 THEN 1 ELSE IF newRows > 12 THEN 12 ELSE newRows)
       /\ cols' = (IF newCols < 1 THEN 1 ELSE IF newCols > 12 THEN 12 ELSE newCols)
       /\ DOMAIN cells' = 0..(rows' * cols' - 1)
       /\ \A r \in 0..(rows' - 1), c \in 0..(cols' - 1) :
            IF r < rows /\ c < cols
            THEN /\ cells'[r * cols' + c].fixed = cells[r * cols + c].fixed
                 /\ cells'[r * cols' + c].isFixed = cells[r * cols + c].isFixed
            ELSE cells'[r * cols' + c] = EmptyCell]_vars

\* a 2x2 grid with words was resized to 2x4: the word of the second row is
\* at (1, 0) and the added columns are empty
C26_Witness ==
  /\ lastOp.op = "applySize"
  /\ lastOp.cell = <<2, 4>>
  /\ rows = 2 /\ cols = 4
  /\ cells[4].fixed # <<>>
  /\ cells[1].fixed # <<>>
  /\ cells[2] = EmptyCell

\* a request for 13 rows gave 12
C26_WitnessClamp ==
  /\ lastOp.op = "applySize"
  /\ lastOp.cell = <<13, 1>>
  /\ rows = 12 /\ cols = 1
  /\ cells[0].fixed # <<>>

\* the used cells of the editor grid: fixed, holding a word, or an endpoint
\* of an arrow
usedCells ==
  {i \in DOMAIN cells : cells[i].isFixed \/ cells[i].fixed # <<>>}
  \cup {a.from : a \in deriveArrows} \cup {a.to : a \in deriveArrows}

\* C27: export and auto-trim cut the grid to the smallest box that holds
\* every used cell (fixed, with a word, or the from or to endpoint of an
\* arrow), and every used cell keeps its content at its place in the box.
C27_TrimIsMinimalBox ==
  /\ [](lastOp.op = "buildPuzzle" /\ usedCells # {} =>
          LET minRow == SetMin({i \div cols : i \in usedCells})
              maxRow == SetMax({i \div cols : i \in usedCells})
              minCol == SetMin({i % cols : i \in usedCells})
              maxCol == SetMax({i % cols : i \in usedCells})
              at(i) == ((i \div cols) - minRow) * (maxCol - minCol + 1) + (i % cols) - minCol IN
          /\ lastOp.ret.rows = maxRow - minRow + 1
          /\ lastOp.ret.cols = maxCol - minCol + 1
          /\ \A i \in usedCells :
               /\ lastOp.ret.cells[at(i)].fixed
                    = (IF cells[i].isFixed THEN cells[i].fixed ELSE <<>>)
               /\ Get(lastOp.ret.solutions, at(i))
                    = (IF cells[i].isFixed THEN <<>> ELSE cells[i].fixed))
  /\ [][lastOp'.op = "autoTrim" /\ usedCells # {} =>
          LET minRow == SetMin({i \div cols : i \in usedCells})
              maxRow == SetMax({i \div cols : i \in usedCells})
              minCol == SetMin({i % cols : i \in usedCells})
              maxCol == SetMax({i % cols : i \in usedCells})
              at(i) == ((i \div cols) - minRow) * (maxCol - minCol + 1) + (i % cols) - minCol IN
          /\ rows' = maxRow - minRow + 1
          /\ cols' = maxCol - minCol + 1
          /\ \A i \in usedCells : cells'[at(i)] = cells[i]]_vars

\* C28: the arrows of an exported puzzle are exactly one right arrow for
\* every cell of the exported grid that is flagged right and is not in its
\* last column and one down arrow for every cell flagged down that is not in
\* its last row; a right arrow goes from a cell to the next index, a down
\* arrow to the index one row below, and both ends lie inside the exported
\* grid.
C28_ExportedArrows ==
  lastOp.op = "buildPuzzle" =>
    LET p == lastOp.ret
        b == getUsedBounds
        old(i) == (b.minRow + (i \div p.cols)) * cols + b.minCol + (i % p.cols)
        inGrid == 0..(p.rows * p.cols - 1) IN
    /\ \A i \in inGrid :
         /\ [from |-> i, to |-> i + 1, dir |-> "right"] \in p.arrows
              <=> (cellOr(cells, old(i)).right /\ i % p.cols # p.cols - 1)
         /\ [from |-> i, to |-> i + p.cols, dir |-> "down"] \in p.arrows
              <=> (cellOr(cells, old(i)).down /\ i \div p.cols # p.rows - 1)
    /\ \A a \in p.arrows :
         /\ a.from \in inGrid
         /\ a.to \in inGrid
         /\ a.dir \in {"right", "down"}
         /\ a.dir = "right" => a.to = a.from + 1 /\ a.to \div p.cols = a.from \div p.cols
         /\ a.dir = "down" => a.to = a.from + p.cols

\* an export with a right and a down arrow
C28_Witness ==
  /\ lastOp.op = "buildPuzzle"
  /\ \E a \in lastOp.ret.arrows : a.dir = "right"
  /\ \E a \in lastOp.ret.arrows : a.dir = "down"

\* an export whose only cell is flagged right: the flag gives no arrow
C28_WitnessEdge ==
  /\ lastOp.op = "buildPuzzle"
  /\ lastOp.ret.rows = 1 /\ lastOp.ret.cols = 1
  /\ \E i \in DOMAIN cells : cells[i].right
  /\ lastOp.ret.arrows = {}

\* C29: an insert at the top moves the cell at (r, c) to (r + 1, c), an insert
\* at the left moves it to (r, c + 1), an insert at the bottom or the right
\* leaves every cell where it is; the new row or column is empty without
\* flags, every old cell keeps its word and its fixed, right and down flags,
\* and nothing happens when the axis is at 12 already.
C29_InsertShifts ==
  [][/\ lastOp'.op \in {"insertRowAtTop", "insertRowAtBottom"} =>
          IF rows >= 12
          THEN UNCHANGED <<rows, cols, cells>>
          ELSE LET dr == IF lastOp'.op = "insertRowAtTop" THEN 1 ELSE 0
                   newRow == IF lastOp'.op = "insertRowAtTop" THEN 0 ELSE rows IN
               /\ rows' = rows + 1
               /\ cols' = cols
               /\ DOMAIN cells' = 0..(rows' * cols' - 1)
               /\ \A r \in 0..(rows - 1), c \in 0..(cols - 1) :
                    cells'[(r + dr) * cols + c] = cells[r * cols + c]
               /\ \A c \in 0..(cols - 1) : cells'[newRow * cols + c] = EmptyCell
     /\ lastOp'.op \in {"insertColumnAtLeft", "insertColumnAtRight"} =>
          IF cols >= 12
          THEN UNCHANGED <<rows, cols, cells>>
          ELSE LET dc == IF lastOp'.op = "insertColumnAtLeft" THEN 1 ELSE 0
                   newCol == IF lastOp'.op = "insertColumnAtLeft" THEN 0 ELSE cols IN
               /\ rows' = rows
               /\ cols' = cols + 1
               /\ DOMAIN cells' = 0..(rows' * cols' - 1)
               /\ \A r \in 0..(rows - 1), c \in 0..(cols - 1) :
                    cells'[r * cols' + c + dc] = cells[r * cols + c]
               /\ \A r \in 0..(rows - 1) : cells'[r * cols' + newCol] = EmptyCell]_vars

\* C30: every key of the solutions of an exported puzzle is an index of the
\* exported grid and names a cell that is not fixed.
C30_SolutionKeys ==
  lastOp.op = "buildPuzzle" =>
    \A k \in DOMAIN lastOp.ret.solutions :
      /\ k \in 0..(lastOp.ret.rows * lastOp.ret.cols - 1)
      /\ lastOp.ret.cells[k].fixed = <<>>

\* an export of a trimmed grid with a solution word next to a fixed word
C30_Witness ==
  /\ lastOp.op = "buildPuzzle"
  /\ lastOp.ret.rows * lastOp.ret.cols < rows * cols
  /\ DOMAIN lastOp.ret.solutions # {}
  /\ \E i \in DOMAIN lastOp.ret.cells : lastOp.ret.cells[i].fixed # <<>>

\* C31: after every submit focusedCell is the lowest-index cell that is not
\* fixed, has a solution and is not locked, and it is null when every
\* solution cell is locked.
C31_SubmitFocusesFirstUnsolved ==
  lastOp.op = "submit" =>
    LET open == {i \in DOMAIN puzzle.cells :
                   /\ puzzle.cells[i].fixed = <<>>
                   /\ i \in DOMAIN puzzle.solutions
                   /\ i \notin lockedCells} IN
    IF open = {}
    THEN focusedCell = null
    ELSE focusedCell \in open /\ \A j \in open : focusedCell <= j

\* a submit locked cell 1 and left cell 2 open: the focus is on cell 2
C31_Witness ==
  /\ lastOp.op = "submit"
  /\ 1 \in lockedCells
  /\ 2 \in DOMAIN puzzle.solutions
  /\ 2 \notin lockedCells
  /\ focusedCell = 2

\* a submit locked the last open cell: no cell is focused
C31_WitnessSolved ==
  /\ lastOp.op = "submit"
  /\ DOMAIN puzzle.solutions # {}
  /\ DOMAIN puzzle.solutions \subseteq lockedCells
  /\ focusedCell = null

\* the used cells of the loaded puzzle that are not fixed
usedNonFixed ==
  {i \in DOMAIN puzzle.cells :
     /\ puzzle.cells[i].fixed = <<>>
     /\ \/ i \in DOMAIN puzzle.solutions
        \/ \E a \in puzzle.arrows : a.from = i \/ a.to = i}

\* C32: goNext moves focusedCell to the nearest following used, non-fixed
\* cell in cyclic row-major order and goPrev to the nearest preceding one
\* (the cell itself being the farthest), counted from cell 0 when no cell is
\* focused; both always complete, and they leave focusedCell as it is when
\* the puzzle has no used non-fixed cell.
C32_NavigationCyclic ==
  /\ [](puzzle # NoPuzzle => ENABLED GoNext /\ ENABLED GoPrev)
  /\ [][LET n == Cardinality(DOMAIN puzzle.cells)
            start == IF focusedCell = null THEN 0 ELSE focusedCell
            ahead(t) == (t - start - 1 + 2 * n) % n
            behind(t) == (start - 1 - t + 2 * n) % n IN
        /\ lastOp'.op = "navigate" /\ GoNext =>
             IF usedNonFixed = {}
             THEN focusedCell' = focusedCell
             ELSE /\ focusedCell' \in usedNonFixed
                  /\ \A u \in usedNonFixed : ahead(focusedCell') <= ahead(u)
        /\ lastOp'.op = "navigate" /\ GoPrev =>
             IF usedNonFixed = {}
             THEN focusedCell' = focusedCell
             ELSE /\ focusedCell' \in usedNonFixed
                  /\ \A u \in usedNonFixed : behind(focusedCell') <= behind(u)]_vars

\* the focus is on a locked cell, which only goNext and goPrev can reach
C32_Witness ==
  /\ lastOp.op = "navigate"
  /\ focusedCell # null
  /\ focusedCell \in lockedCells
  /\ Cardinality(usedNonFixed) >= 2

\* a navigation in a puzzle without input cells left the focus where it was
C32_WitnessNoInput ==
  /\ lastOp.op = "navigate"
  /\ puzzle # NoPuzzle
  /\ usedNonFixed = {}
  /\ focusedCell = 0

\* C33: in every reachable play state no cell is both locked and incorrect,
\* and every locked cell is a key of the puzzle's solutions.
C33_LockedIncorrectDisjoint ==
  puzzle # NoPuzzle =>
    /\ lockedCells \cap incorrectCells = {}
    /\ lockedCells \subseteq DOMAIN puzzle.solutions

\* a submit locked one cell and marked another incorrect
C33_Witness ==
  /\ lastOp.op = "submit"
  /\ lockedCells # {}
  /\ incorrectCells # {}

\* the second submit locked a fully revealed cell that the first had marked
\* incorrect or left open
C33_WitnessSecondSubmit ==
  /\ lastOp.op = "submit"
  /\ attempts = 2
  /\ \E i \in lockedCells :
       /\ i \in DOMAIN tileCompletions
       /\ tileCompletions[i].submits = 2
       /\ Get(entries, i) = <<>>
  /\ incorrectCells = {}

\* C34: every cell in incorrectCells has an empty entry; a cell enters
\* incorrectCells only in a step that leaves its entry empty, and a setEntry or
\* revealLetter that changes the cell's entry or reveal, or a submit that
\* locks it, takes it out of incorrectCells.
C34_IncorrectHasEmptyEntry ==
  /\ [](\A i \in incorrectCells : Get(entries, i) = <<>>)
  /\ [][/\ \A i \in incorrectCells' \ incorrectCells : Get(entries', i) = <<>>
        /\ lastOp'.op \in {"setEntry", "revealLetter", "submit"} =>
             \A i \in incorrectCells :
               \/ Get(entries', i) # Get(entries, i) /\ lastOp'.op # "submit"
               \/ Get(reveals', i) # Get(reveals, i)
               \/ i \in lockedCells' \ lockedCells
               => i \notin incorrectCells']_vars

\* a submit found a typed word wrong: the cell is incorrect and its entry empty
C34_Witness ==
  /\ lastOp.op = "submit"
  /\ lastOp.ret = FALSE
  /\ incorrectCells # {}
  /\ \A i \in incorrectCells : Get(entries, i) = <<>>

\* C35: saveState followed by loadSavedState for the same puzzle restores
\* entries, reveals, focusedCell, lockedCells, incorrectCells, submitCount and
\* tileCompletions to the values that were saved.
C35_SaveLoadRoundTrip ==
  [][lastOp'.op = "mount" /\ storage[puzzle'.id] \notin {NoRecord, CorruptRecord} =>
       LET saved == storage[puzzle'.id] IN
       /\ entries' = saved.entries
       /\ reveals' = saved.reveals
       /\ focusedCell' = saved.focusedCell
       /\ lockedCells' = saved.lockedCells
       /\ incorrectCells' = saved.incorrectCells
       /\ submitCount' = saved.submitCount
       /\ tileCompletions' = saved.tileCompletions]_vars

\* C36: the archive's score of the persisted record equals the total score
\* the play view computes for the session the record was saved from.
C36_ArchiveScoreIsPlayScore ==
  /\ puzzle # NoPuzzle
  /\ mode = "play"
  /\ archiveRecord(puzzle.id)
  /\ storage[puzzle.id].tileCompletions = tileCompletions
  => getPuzzleScore(puzzle.id) = getTotalScore

\* C37: for a completed puzzle with input cells the archive shows the
\* one-submit star exactly when every used, non-fixed cell was locked on
\* submit number 1, as the play view does.
C37_ArchiveStarIsPlayStar ==
  /\ puzzle # NoPuzzle
  /\ usedNonFixed # {}
  /\ isPuzzleCompleted(puzzle.id)
  /\ storage[puzzle.id].tileCompletions = tileCompletions
  => /\ wasCompletedInOneSubmit(puzzle.id)
          <=> \A i \in usedNonFixed :
                i \in DOMAIN tileCompletions /\ tileCompletions[i].submits = 1
     /\ \A i \in lockedCells :
          wasCompletedInOneSubmit(puzzle.id) <=> wasTileCompletedInOneSubmit(i)

\* C38: after any sequence of editor operations rows and cols are between 1
\* and 12 and the cells array has exactly rows * cols entries.
C38_GridShape ==
  /\ rows \in 1..12
  /\ cols \in 1..12
  /\ DOMAIN cells = 0..(rows * cols - 1)

\* p is at most 12x12, each of its used non-fixed cells has a solution, and
\* its used cells touch all four borders
wellFormed(p) ==
  LET used == {i \in DOMAIN p.cells :
                 \/ p.cells[i].fixed # <<>>
                 \/ i \in DOMAIN p.solutions
                 \/ \E a \in p.arrows : a.from = i \/ a.to = i} IN
  /\ p.rows \in 1..12
  /\ p.cols \in 1..12
  /\ \A i \in used : p.cells[i].fixed = <<>> => i \in DOMAIN p.solutions
  /\ \E i \in used : i \div p.cols = 0
  /\ \E i \in used : i \div p.cols = p.rows - 1
  /\ \E i \in used : i % p.cols = 0
  /\ \E i \in used : i % p.cols = p.cols - 1

\* C39: an export of the editor state that the import of a well-formed puzzle
\* leaves has the puzzle's rows, cols, fixed words, arrows and solutions.
C39_ImportExportRoundTrip ==
  \A p \in ImportPuzzles :
    (/\ lastOp.op = "buildPuzzle"
     /\ wellFormed(p)
     /\ rows = applySize(p.rows, p.cols).rows
     /\ cols = applySize(p.rows, p.cols).cols
     /\ cells = [i \in 0..(p.rows * p.cols - 1) |-> importedCell(p, i)])
      => /\ lastOp.ret.rows = p.rows
         /\ lastOp.ret.cols = p.cols
         /\ lastOp.ret.cells = p.cells
         /\ lastOp.ret.arrows = p.arrows
         /\ lastOp.ret.solutions = p.solutions

\* the 2x3 puzzle with two unused cells was exported as it was imported
C39_Witness ==
  /\ lastOp.op = "buildPuzzle"
  /\ wellFormed(PuzzleD)
  /\ cells = [i \in 0..5 |-> importedCell(PuzzleD, i)]
  /\ lastOp.ret.rows = 2 /\ lastOp.ret.cols = 3
  /\ lastOp.ret.cells = PuzzleD.cells
  /\ lastOp.ret.arrows = PuzzleD.arrows
  /\ lastOp.ret.solutions = PuzzleD.solutions

====
